---- MODULE Spec2Model ----
(***************************************************************************)
(* Order lifecycle tracking of hyperdspy: OrderManager (order_manager.py).  *)
(*                                                                         *)
(* The engine thread calls place_order, place_bulk, cancel_all and         *)
(* cleanup_terminal one after the other. Each call is cut where it lets go *)
(* of the lock: insert | backend call | response; backend call | marking.  *)
(* The WebSocket thread runs on_fill and on_order_update, each wholly      *)
(* under the lock, for the messages of one socket in the order sent.       *)
(*                                                                         *)
(* The venue behind the ExecutionBackend protocol (gateway.py) is the      *)
(* environment. It never fills more than an order's size, fills and        *)
(* cancels only what rests, gives every order its own id, and reports each *)
(* fill and each change of state once.                                     *)
(***************************************************************************)
EXTENDS Integers, Sequences, FiniteSets, TLC

\* ---------------------------------------------------------------- bounds
MaxOrders == 2      \* client ids handed out in one run
MaxSize == 2        \* order sizes are 1..MaxSize (integer lots)
MaxBulk == 2        \* desired orders in one place_bulk call
MaxQueue == 2       \* WebSocket messages in flight
MaxTime == 1        \* local clock readings 0..MaxTime
MaxSkew == 1        \* a venue timestamp is at most this far ahead of the local clock
MaxCreated == 4     \* Order objects created by the callers of SpecCallers
MaxPaperOrders == 2 \* orders placed through the paper backend
MaxPrice == 2       \* prices are 1..MaxPrice (integer ticks)
MaxLevels == 2      \* price levels on one side of a book
MaxFills == 4       \* fills in one run of SpecFills
MaxUpdates == 3     \* OrderBook.update calls in one run of SpecBooks
MaxL4Oid == 2       \* order ids on the L4 feed are 1..MaxL4Oid
MaxL4Snapshot == 2  \* orders on one side of an L4 snapshot message
MaxL4Diffs == 1     \* entries of bidDiffs, and of askDiffs, in one L4 message
MaxL4Messages == 2  \* l4Book messages in one run of SpecL4
MaxL4Twice == 2     \* entries per side of the diff messages tried twice on a snapshot
MaxCallbacks == 2   \* callbacks registered for one coin on the L4 client
MaxL4Notify == 1    \* orders on one side of a snapshot message handled with callbacks

StartingBalance == 10000    \* PaperExecution(starting_balance=Decimal("10000"))

Coins == {"BTC", "ETH"}
NoOid == 0          \* Order.oid is None
MaxAges == {0, 1}   \* max_age_ms arguments of cleanup_terminal

\* _connect calls in a run
MaxConnects == 2

\* config.trading.coins, in the order Engine.run subscribes them
SubCoins == <<"BTC", "ETH">>

\* ticks of the engine in a run
MaxTicks == 2

\* latest reading of the monotonic clock
MaxClock == 3

\* config.tick_interval_s, in units of the clock
Interval == 2

\* desired orders in one decision
MaxDesired == 1

\* cleanup_terminal's default max_age_ms
DefaultMaxAge == 300000

\* ------------------------------------------------------------- variables
VARIABLES
    orders,         \* OrderManager._orders: cloid -> Order
    oid_to_cloid,   \* OrderManager._oid_to_cloid: oid -> cloid
    cloid_counter,  \* OrderManager._cloid_counter
    pc,             \* position of the engine thread inside the order manager
    cur,            \* the call the engine thread is in: arguments and backend result
    last,           \* the call the engine thread returned from last
    venue,          \* the venue's own record of the orders it accepted: oid -> order
    next_oid,       \* the venue's next order id
    ws,             \* WebSocket messages sent by the venue, not yet handled
    now,            \* int(time.time() * 1000) of the local clock
    callers,        \* threads inside place_order / place_bulk, up to the insert
    created,        \* client ids of the Order objects created, in order of creation
    paper,          \* PaperExecution: next_oid, open_orders, fills, positions, balance_usd
    p_call,         \* the call of the paper backend in progress: its arguments
    p_ret,          \* the fills check_resting_orders returned last
    book_store,     \* OrderBook._books: coin -> BookSnapshot
    writers,        \* threads inside OrderBook.update: position and local snapshot
    got,            \* what the reader's last get / get_all returned
    completed,      \* per coin, the data of the update that completed last
    updates,        \* number of update calls begun
    l4_books,       \* L4Client._books: coin -> L4BookSnapshot
    l4_raw,         \* L4Client._raw_books: coin -> side -> price -> orders
    l4_received,    \* L4Client._snapshot_received
    l4_last,        \* the l4Book message handled last
    l4_msgs,        \* number of l4Book messages the server has sent
    l4_served,      \* coins whose snapshot the server sent on this connection
    l4_ws_ready,    \* L4Client._ws_ready
    l4_queued,      \* L4Client._queued_subscriptions
    l4_link,        \* the socket of L4Client._ws: "none", "connecting", "open", "closed"
    l4_sock,        \* the L4Client thread: position and index of the replay loop
    l4_caller,      \* the thread of Engine.run in its loop over subscribe(coin)
    l4_sent,        \* coins whose subscribe message reached the server
    l4_connects,    \* number of _connect calls begun
    l4_live,        \* coins whose subscribe message reached the server on the present socket
    e_pc,           \* Engine: position of the thread in run / _tick_loop / _tick / shutdown
    e_i,            \* Engine: index of the coin in the loop over config.trading.coins
    e_running,      \* Engine._running, the Event's flag
    e_clock,        \* time.monotonic()
    e_tick_start,   \* _tick_loop's tick_start
    e_deadline,     \* when the wait in progress times out
    e_ticks,        \* ticks begun
    e_decision,     \* what strategy.on_tick gave last
    e_calls,        \* cancel_all / place_bulk calls on the order manager in this tick
    e_raised,       \* number of the latest tick that ended by an exception, 0 when none did
    e_shut,         \* sub-steps shutdown has run, in order
    lk_om,          \* OrderManager._lock: the thread holding it, "" when free
    lk_paper,       \* PaperExecution._lock: the thread holding it, "" when free
    lk_thr,         \* per thread: the call it is in, its position, and what it is inside
    l4_callbacks,   \* L4Client._callbacks: coin -> callbacks, each known by its number
    l4_notified     \* the callback calls made for the l4Book message handled last

\* the paper backend and the call in progress on it
paperVars == <<paper, p_call, p_ret>>

\* the book store and the threads on it
bookVars == <<book_store, writers, got, completed, updates>>

\* the L4 client's books
l4Vars == <<l4_books, l4_raw, l4_received, l4_last, l4_msgs, l4_served>>

\* the L4 client's subscriptions and the threads on them
subVars == <<l4_ws_ready, l4_queued, l4_link, l4_sock, l4_caller, l4_sent, l4_connects,
             l4_live>>

\* the engine's loop and its shutdown
engVars == <<e_pc, e_i, e_running, e_clock, e_tick_start, e_deadline, e_ticks, e_decision,
             e_calls, e_raised, e_shut>>

\* the two mutexes and the threads that take them
lockVars == <<lk_om, lk_paper, lk_thr>>

\* the L4 client's callbacks
notifyVars == <<l4_callbacks, l4_notified>>

\* the components after the L4 books
rest == <<subVars, engVars, lockVars, notifyVars>>

\* the order manager, its venue and its clock
omVars == <<orders, oid_to_cloid, cloid_counter, pc, cur, last, venue, next_oid, ws, now>>

\* the order manager and the components up to the L4 books
older == <<omVars, callers, created, paperVars, bookVars, l4Vars>>

\* what only the specifications of the other components change
aside == <<callers, created, paperVars, bookVars, l4Vars, rest>>

vars == <<orders, oid_to_cloid, cloid_counter, pc, cur, last, venue, next_oid, ws, now,
          aside>>

\* --------------------------------------------------------------- helpers
Min(a, b) == IF a < b THEN a ELSE b

Range(s) == {s[i] : i \in DOMAIN s}

\* dict without some keys
Without(f, ks) == [k \in (DOMAIN f) \ ks |-> f[k]]

\* dict with d[k] = v
Put(f, k, v) == [x \in (DOMAIN f) \cup {k} |-> IF x = k THEN v ELSE f[x]]

RECURSIVE SortedSeq(_)
SortedSeq(S) ==
    IF S = {} THEN <<>>
    ELSE LET m == CHOOSE x \in S : \A y \in S : x <= y
         IN <<m>> \o SortedSeq(S \ {m})

\* ---------------------------------------------------------------- models
IsTerminal(o) == o.status \in {"filled", "cancelled", "rejected"}

RemainingSize(o) == o.size - o.filled_size

NewOrder(coin, size, t) ==
    [coin |-> coin, size |-> size, oid |-> NoOid, status |-> "pending",
     filled_size |-> 0, updated_at_ms |-> t]

\* cur: raised says that the backend call raised
NoCall == [op |-> "none", coin |-> "", cloids |-> <<>>, statuses |-> <<>>, raised |-> FALSE]

\* what is remembered of a call once it is over; raised says that the call
\* itself ended by raising to its caller, cloids are the orders place_order and
\* place_bulk return, max_age is cleanup_terminal's argument
Returned(call) ==
    [op |-> call.op, coin |-> call.coin, raised |-> call.raised, cloids |-> call.cloids,
     max_age |-> 0]


NoMsg == [type |-> "none", oid |-> NoOid, size |-> 0, list |-> <<>>]

FillMsg(oid, size) == [NoMsg EXCEPT !.type = "fill", !.oid = oid, !.size = size]

UpdatesMsg(list) == [NoMsg EXCEPT !.type = "updates", !.list = list]

\* ------------------------------------------------- order manager: pieces
\* ApplyStatus with the filled branch forgetting filled_size
ApplyStatusNoFill(o, st) ==
    IF st.kind = "resting" THEN [o EXCEPT !.oid = st.oid, !.status = "open"]
    ELSE IF st.kind = "filled" THEN [o EXCEPT !.oid = st.oid, !.status = "filled"]
    ELSE IF st.kind = "error" THEN [o EXCEPT !.status = "rejected"]
    ELSE o

\* _process_order_response / _process_bulk_response: one element of statuses
\* applied to one order
ApplyStatus(o, st) ==
    IF st.kind = "resting" THEN [o EXCEPT !.oid = st.oid, !.status = "open"]
    ELSE IF st.kind = "filled"
         THEN [o EXCEPT !.oid = st.oid, !.status = "filled", !.filled_size = o.size]
    ELSE IF st.kind = "error" THEN [o EXCEPT !.status = "rejected"]
    ELSE o

\* the reverse-index write that goes with ApplyStatus
ApplyStatusIndex(rev, c, st) ==
    IF st.kind \in {"resting", "filled"} THEN Put(rev, st.oid, c) ELSE rev

\* FillOrder comparing with > where the code has >=
FillOrderStrict(o, fill) ==
    LET f == o.filled_size + fill.size
    IN [o EXCEPT !.filled_size = f,
                 !.updated_at_ms = fill.ts,
                 !.status = IF f > o.size THEN "filled" ELSE "partial"]

\* on_fill, once the order has been found
FillOrder(o, fill) ==
    LET f == o.filled_size + fill.size
    IN [o EXCEPT !.filled_size = f,
                 !.updated_at_ms = fill.ts,
                 !.status = IF f >= o.size THEN "filled" ELSE "partial"]

\* UpdateOrder matching the tag "cancelled" where the venue sends "canceled"
UpdateOrderSpelling(o, tag, t) ==
    [o EXCEPT !.status = IF tag = "cancelled" THEN "cancelled"
                         ELSE IF tag = "filled" THEN "filled"
                         ELSE IF tag = "rejected" THEN "rejected"
                         ELSE o.status,
              !.updated_at_ms = t]

\* on_order_update, once the order has been found
UpdateOrder(o, tag, t) ==
    [o EXCEPT !.status = IF tag = "canceled" THEN "cancelled"
                         ELSE IF tag = "filled" THEN "filled"
                         ELSE IF tag = "rejected" THEN "rejected"
                         ELSE o.status,
              !.updated_at_ms = t]

\* CancelOrder forgetting the venue id of the order it marks
CancelOrderForgetsOid(o, coin, t) ==
    IF o.coin = coin /\ ~IsTerminal(o)
    THEN [o EXCEPT !.status = "cancelled", !.updated_at_ms = t, !.oid = NoOid]
    ELSE o

\* cancel_all: the loop body
CancelOrder(o, coin, t) ==
    IF o.coin = coin /\ ~IsTerminal(o)
    THEN [o EXCEPT !.status = "cancelled", !.updated_at_ms = t]
    ELSE o

\* _process_bulk_response: zip(orders, statuses) from position i on;
\* the value is <<orders, oid_to_cloid>>
RECURSIVE BulkApply(_, _, _, _, _)
BulkApply(os, rev, cloids, statuses, i) ==
    IF i > Min(Len(cloids), Len(statuses)) THEN <<os, rev>>
    ELSE LET c == cloids[i]
             st == statuses[i]
         IN BulkApply([os EXCEPT ![c] = ApplyStatus(os[c], st)],
                      ApplyStatusIndex(rev, c, st), cloids, statuses, i + 1)

\* UpdatesApply giving an update with an unknown venue id to the newest order
RECURSIVE UpdatesApplyAdopting(_, _, _, _, _)
UpdatesApplyAdopting(os, rev, list, t, i) ==
    IF i > Len(list) THEN os
    ELSE LET u == list[i]
             found == u.oid \in DOMAIN rev /\ rev[u.oid] \in DOMAIN os
             newest == CHOOSE c \in DOMAIN os : \A d \in DOMAIN os : d <= c
         IN UpdatesApplyAdopting(
                IF found
                THEN [os EXCEPT ![rev[u.oid]] = UpdateOrder(os[rev[u.oid]], u.tag, t)]
                ELSE IF DOMAIN os # {}
                     THEN [os EXCEPT ![newest] = UpdateOrder(os[newest], u.tag, t)]
                     ELSE os,
                rev, list, t, i + 1)

\* on_order_update: the loop over the updates of one message;
\* the value is the orders map
RECURSIVE UpdatesApply(_, _, _, _, _)
UpdatesApply(os, rev, list, t, i) ==
    IF i > Len(list) THEN os
    ELSE LET u == list[i]
             found == u.oid \in DOMAIN rev /\ rev[u.oid] \in DOMAIN os
         IN UpdatesApply(IF found
                         THEN [os EXCEPT ![rev[u.oid]] = UpdateOrder(os[rev[u.oid]], u.tag, t)]
                         ELSE os,
                         rev, list, t, i + 1)

\* ------------------------------------------- callers of place_order: pieces
\* threads that call place_order / place_bulk on one OrderManager
Threads == {"t1", "t2"}

\* a thread outside the order manager
IdleCaller == [pc |-> "idle", coin |-> "", todo |-> 0, tmp |-> 0, made |-> <<>>]

\* the w hexadecimal digits of n, most significant first
RECURSIVE Hex(_, _)
Hex(n, w) == IF w = 0 THEN <<>> ELSE Append(Hex(n \div 16, w - 1), n % 16)

\* Cloid.from_int(n).to_raw(): f"{n:#034x}", the prefix 0x and 32 digits
CloidRaw(n) == <<"0x">> \o Hex(n, 32)

\* ------------------------------------------------ paper backend: numbers
\* Prices are whole ticks and sizes whole lots. A quotient of Decimals (the
\* entry price of a position built from several fills) is kept as the
\* fraction num/den in lowest terms. float(Decimal), str(float) and
\* Decimal(str) give back the same number for every price and size of the
\* model (decimals of 15 significant digits or fewer), and Decimal arithmetic
\* is taken without the rounding of its 28-digit context.
Abs(x) == IF x < 0 THEN -x ELSE x

RECURSIVE GCD(_, _)
GCD(a, b) == IF b = 0 THEN a ELSE GCD(b, a % b)

\* n/d in lowest terms with a positive denominator
Frac(n, d) ==
    LET g == GCD(Abs(n), Abs(d))
        s == IF d < 0 THEN -1 ELSE 1
    IN [num |-> s * (n \div g), den |-> s * (d \div g)]

Whole(n) == [num |-> n, den |-> 1]

FracAdd(x, y) == Frac(x.num * y.den + y.num * x.den, x.den * y.den)

FracSub(x, y) == Frac(x.num * y.den - y.num * x.den, x.den * y.den)

FracMul(x, y) == Frac(x.num * y.num, x.den * y.den)

FracDiv(x, y) == Frac(x.num * y.den, x.den * y.num)

\* ------------------------------------------------- paper backend: pieces
Prices == 1..MaxPrice

\* one side of a book, best level first: the prices of at most MaxLevels levels
BidSides ==
    {s \in UNION {[1..n -> Prices] : n \in 0..MaxLevels} :
        \A i \in 1..(Len(s) - 1) : s[i] > s[i + 1]}

AskSides ==
    {s \in UNION {[1..n -> Prices] : n \in 0..MaxLevels} :
        \A i \in 1..(Len(s) - 1) : s[i] < s[i + 1]}

\* BookSnapshot of one coin, also the levels of an l2_snapshot: every bid is
\* below every ask
Books ==
    {bk \in [bids : BidSides, asks : AskSides] :
        bk.bids = <<>> \/ bk.asks = <<>> \/ bk.bids[1] < bk.asks[1]}

\* books.get(coin) is None
NoBook == [bids |-> <<0>>, asks |-> <<0>>]

\* the books argument of check_resting_orders: what the book store holds
BookMaps == [Coins -> Books \cup {NoBook}]

\* what self._info.l2_snapshot(coin) gives: the levels, or it raises
Snapshots == [raised : {FALSE}, book : Books] \cup {[raised |-> TRUE, book |-> NoBook]}

\* order types callers pass: {"limit": {"tif": ...}}, and one without "limit"
OrderTypes == {"Gtc", "Ioc", "trigger"}

\* order_type.get("limit", {}).get("tif", "Gtc")
TifOf(order_type) == IF order_type = "trigger" THEN "Gtc" ELSE order_type

\* the arguments of PaperExecution.place_order
Requests == [coin : Coins, is_buy : BOOLEAN, sz : 1..MaxSize, limit_px : Prices,
             order_type : OrderTypes]

\* PaperExecution.__init__
NewPaper ==
    [next_oid |-> 1, open_orders |-> <<>>, fills |-> <<>>, positions |-> <<>>,
     balance_usd |-> Whole(StartingBalance)]

\* UpdatePosition taking every closed position for a long one
UpdatePositionLongOnly(p, coin, is_buy, sz, px) ==
    IF coin \notin DOMAIN p.positions
    THEN [p EXCEPT !.positions =
              Put(@, coin, [szi |-> IF is_buy THEN sz ELSE -sz, entryPx |-> Whole(px)])]
    ELSE LET pos == p.positions[coin]
             old_szi == pos.szi
             delta == IF is_buy THEN sz ELSE -sz
             new_szi == old_szi + delta
         IN IF new_szi = 0
            THEN LET closed_pnl ==
                         FracMul(FracMul(FracSub(Whole(px), pos.entryPx), Whole(Abs(delta))),
                                 Whole(1))
                 IN [p EXCEPT !.balance_usd = FracAdd(@, closed_pnl),
                              !.positions = Without(@, {coin})]
            ELSE LET new_entry ==
                         IF (old_szi > 0 /\ delta > 0) \/ (old_szi < 0 /\ delta < 0)
                         THEN FracDiv(FracAdd(FracMul(pos.entryPx, Whole(Abs(old_szi))),
                                              FracMul(Whole(px), Whole(Abs(delta)))),
                                      Whole(Abs(new_szi)))
                         ELSE pos.entryPx
                 IN [p EXCEPT !.positions[coin] = [szi |-> new_szi, entryPx |-> new_entry]]

\* UpdatePosition averaging the entry price on a reducing fill as well
UpdatePositionReprices(p, coin, is_buy, sz, px) ==
    IF coin \notin DOMAIN p.positions
    THEN [p EXCEPT !.positions =
              Put(@, coin, [szi |-> IF is_buy THEN sz ELSE -sz, entryPx |-> Whole(px)])]
    ELSE LET pos == p.positions[coin]
             old_szi == pos.szi
             delta == IF is_buy THEN sz ELSE -sz
             new_szi == old_szi + delta
         IN IF new_szi = 0
            THEN LET closed_pnl ==
                         FracMul(FracMul(FracSub(Whole(px), pos.entryPx), Whole(Abs(delta))),
                                 Whole(IF old_szi > 0 THEN 1 ELSE -1))
                 IN [p EXCEPT !.balance_usd = FracAdd(@, closed_pnl),
                              !.positions = Without(@, {coin})]
            ELSE LET new_entry ==
                         FracDiv(FracAdd(FracMul(pos.entryPx, Whole(Abs(old_szi))),
                                         FracMul(Whole(px), Whole(Abs(delta)))),
                                 Whole(Abs(new_szi)))
                 IN [p EXCEPT !.positions[coin] = [szi |-> new_szi, entryPx |-> new_entry]]

\* _update_position(coin, is_buy, sz, px); of a position the size szi and the
\* entry price are kept
UpdatePosition(p, coin, is_buy, sz, px) ==
    IF coin \notin DOMAIN p.positions
    THEN [p EXCEPT !.positions =
              Put(@, coin, [szi |-> IF is_buy THEN sz ELSE -sz, entryPx |-> Whole(px)])]
    ELSE LET pos == p.positions[coin]
             old_szi == pos.szi
             delta == IF is_buy THEN sz ELSE -sz
             new_szi == old_szi + delta
         IN IF new_szi = 0
            THEN LET closed_pnl ==
                         FracMul(FracMul(FracSub(Whole(px), pos.entryPx), Whole(Abs(delta))),
                                 Whole(IF old_szi > 0 THEN 1 ELSE -1))
                 IN [p EXCEPT !.balance_usd = FracAdd(@, closed_pnl),
                              !.positions = Without(@, {coin})]
            ELSE LET new_entry ==
                         IF (old_szi > 0 /\ delta > 0) \/ (old_szi < 0 /\ delta < 0)
                         THEN FracDiv(FracAdd(FracMul(pos.entryPx, Whole(Abs(old_szi))),
                                              FracMul(Whole(px), Whole(Abs(delta)))),
                                      Whole(Abs(new_szi)))
                         ELSE pos.entryPx
                 IN [p EXCEPT !.positions[coin] = [szi |-> new_szi, entryPx |-> new_entry]]

\* the fill dict _simulate_fill makes
FillOf(order, fill_px) ==
    [coin |-> order.coin, oid |-> order.oid, side |-> IF order.is_buy THEN "B" ELSE "A",
     px |-> fill_px, sz |-> order.sz]

\* _simulate_fill(order, fill_px)
SimulateFill(p, order, fill_px) ==
    UpdatePosition([p EXCEPT !.fills = Append(@, FillOf(order, fill_px))],
                   order.coin, order.is_buy, order.sz, fill_px)

\* the elements of statuses
Resting(oid) == [kind |-> "resting", oid |-> oid]

Filled(oid) == [kind |-> "filled", oid |-> oid]

IocError == [kind |-> "error", oid |-> NoOid]

\* TryImmediateFill filling only when the best price is strictly through the limit
TryImmediateFillStrict(p, req, oid, snap) ==
    LET order == [coin |-> req.coin, is_buy |-> req.is_buy, sz |-> req.sz, oid |-> oid]
    IN IF snap.raised THEN [paper |-> p, status |-> IocError]
       ELSE IF req.is_buy /\ snap.book.asks # <<>>
       THEN IF snap.book.asks[1] < req.limit_px
            THEN [paper |-> SimulateFill(p, order, snap.book.asks[1]), status |-> Filled(oid)]
            ELSE [paper |-> p, status |-> IocError]
       ELSE IF ~req.is_buy /\ snap.book.bids # <<>>
       THEN IF snap.book.bids[1] > req.limit_px
            THEN [paper |-> SimulateFill(p, order, snap.book.bids[1]), status |-> Filled(oid)]
            ELSE [paper |-> p, status |-> IocError]
       ELSE [paper |-> p, status |-> IocError]

\* _try_immediate_fill(coin, is_buy, sz, limit_px, oid, cloid) on the
\* snapshot snap; the value is the backend and the status returned
TryImmediateFill(p, req, oid, snap) ==
    LET order == [coin |-> req.coin, is_buy |-> req.is_buy, sz |-> req.sz, oid |-> oid]
    IN IF snap.raised THEN [paper |-> p, status |-> IocError]
       ELSE IF req.is_buy /\ snap.book.asks # <<>>
       THEN IF snap.book.asks[1] <= req.limit_px
            THEN [paper |-> SimulateFill(p, order, snap.book.asks[1]), status |-> Filled(oid)]
            ELSE [paper |-> p, status |-> IocError]
       ELSE IF ~req.is_buy /\ snap.book.bids # <<>>
       THEN IF snap.book.bids[1] >= req.limit_px
            THEN [paper |-> SimulateFill(p, order, snap.book.bids[1]), status |-> Filled(oid)]
            ELSE [paper |-> p, status |-> IocError]
       ELSE [paper |-> p, status |-> IocError]

\* PaperExecution.place_order; snap is what l2_snapshot gives if it is asked
PaperPlaceOrder(p, req, snap) ==
    LET oid == p.next_oid
        q == [p EXCEPT !.next_oid = @ + 1]
    IN IF TifOf(req.order_type) = "Ioc"
       THEN TryImmediateFill(q, req, oid, snap)
       ELSE [paper |-> [q EXCEPT !.open_orders =
                           Put(@, oid, [coin |-> req.coin, is_buy |-> req.is_buy,
                                        sz |-> req.sz, limit_px |-> req.limit_px,
                                        order_type |-> req.order_type, oid |-> oid])],
             status |-> Resting(oid)]

\* PaperPlaceBulk putting each status in front of the list
RECURSIVE PaperPlaceBulkReversed(_, _, _, _, _)
PaperPlaceBulkReversed(p, reqs, snaps, i, statuses) ==
    IF i > Len(reqs) THEN [paper |-> p, statuses |-> statuses]
    ELSE LET r == PaperPlaceOrder(p, reqs[i], snaps[i])
         IN PaperPlaceBulkReversed(r.paper, reqs, snaps, i + 1, <<r.status>> \o statuses)

\* PaperExecution.place_bulk_orders: the loop from request i on; the value is
\* the backend and the statuses list
RECURSIVE PaperPlaceBulk(_, _, _, _, _)
PaperPlaceBulk(p, reqs, snaps, i, statuses) ==
    IF i > Len(reqs) THEN [paper |-> p, statuses |-> statuses]
    ELSE LET r == PaperPlaceOrder(p, reqs[i], snaps[i])
         IN PaperPlaceBulk(r.paper, reqs, snaps, i + 1, Append(statuses, r.status))

\* CrossingPrice reading the last level of a side where the code reads the first
CrossingPriceLastLevel(order, book) ==
    IF book = NoBook THEN 0
    ELSE IF order.is_buy /\ book.asks # <<>>
    THEN IF book.asks[Len(book.asks)] <= order.limit_px THEN book.asks[Len(book.asks)] ELSE 0
    ELSE IF ~order.is_buy /\ book.bids # <<>>
    THEN IF book.bids[Len(book.bids)] >= order.limit_px THEN book.bids[Len(book.bids)] ELSE 0
    ELSE 0

\* check_resting_orders: does the book fill the resting order, and at what
\* price (0: it does not)
CrossingPrice(order, book) ==
    IF book = NoBook THEN 0
    ELSE IF order.is_buy /\ book.asks # <<>>
    THEN IF book.asks[1] <= order.limit_px THEN book.asks[1] ELSE 0
    ELSE IF ~order.is_buy /\ book.bids # <<>>
    THEN IF book.bids[1] >= order.limit_px THEN book.bids[1] ELSE 0
    ELSE 0

\* check_resting_orders: the loop over the open orders, in the order of the
\* dict (the order of insertion, which is the order of the oids), from
\* position i on; the value is the backend and the new fills
RECURSIVE CheckLoop(_, _, _, _, _)
CheckLoop(p, books, oids, i, new_fills) ==
    IF i > Len(oids) THEN [paper |-> p, fills |-> new_fills]
    ELSE LET order == p.open_orders[oids[i]]
             px == CrossingPrice(order, books[order.coin])
         IN IF px = 0 THEN CheckLoop(p, books, oids, i + 1, new_fills)
            ELSE CheckLoop(SimulateFill(p, order, px), books, oids, i + 1,
                           Append(new_fills, FillOf(order, px)))

\* PaperExecution.check_resting_orders(books)
CheckRestingOrders(p, books) ==
    LET r == CheckLoop(p, books, SortedSeq(DOMAIN p.open_orders), 1, <<>>)
    IN [paper |-> [r.paper EXCEPT !.open_orders =
                      Without(@, {f.oid : f \in Range(r.fills)})],
        fills |-> r.fills]

\* PaperExecution.cancel_all(coin)
PaperCancelAll(p, coin) ==
    [p EXCEPT !.open_orders = Without(@, {o \in DOMAIN p.open_orders : p.open_orders[o].coin = coin})]

\* no call of the paper backend in progress
NoPaperCall == [op |-> "none", reqs |-> <<>>, snaps |-> <<>>]

\* ---------------------------------------------------- book store: pieces
\* threads that call OrderBook.update (one per subscription)
Writers == {"w1", "w2"}

IdleWriter == [pc |-> "idle", data |-> <<>>, snapshot |-> <<>>]

NoGet == [op |-> "none", coin |-> "", value |-> <<>>]

\* Optional[BookSnapshot]: None
NoSnapshot == [coin |-> "", bids |-> <<>>, asks |-> <<>>, timestamp_ms |-> 0]

\* the levels of one side as the SDK sends them
RawSide(prices) == [i \in DOMAIN prices |-> [px |-> prices[i], sz |-> 1, n |-> 1]]

\* raw SDK L2BookData
L2Data(coin, book, time) ==
    [coin |-> coin, levels |-> <<RawSide(book.bids), RawSide(book.asks)>>, time |-> time]

\* PriceLevel.from_sdk(raw)
PriceLevelFromSdk(raw) == [price |-> raw.px, size |-> raw.sz, num_orders |-> raw.n]

\* BookSnapshot.from_sdk(data)
BookSnapshotFromSdk(data) ==
    [coin |-> data.coin,
     bids |-> [i \in DOMAIN data.levels[1] |-> PriceLevelFromSdk(data.levels[1][i])],
     asks |-> [i \in DOMAIN data.levels[2] |-> PriceLevelFromSdk(data.levels[2][i])],
     timestamp_ms |-> data.time]

\* StoreWrite keeping a side of the old snapshot where the new one has none
StoreWriteMerged(bs, snapshot) ==
    IF snapshot.coin \in DOMAIN bs
    THEN Put(bs, snapshot.coin,
             [snapshot EXCEPT !.bids = IF @ = <<>> THEN bs[snapshot.coin].bids ELSE @,
                              !.asks = IF @ = <<>> THEN bs[snapshot.coin].asks ELSE @])
    ELSE Put(bs, snapshot.coin, snapshot)

\* self._books[snapshot.coin] = snapshot
StoreWrite(bs, snapshot) == Put(bs, snapshot.coin, snapshot)

\* self._books.get(coin)
StoreGet(bs, coin) == IF coin \in DOMAIN bs THEN bs[coin] ELSE NoSnapshot

\* ----------------------------------------------------- L4 client: pieces
L4Oids == 1..MaxL4Oid

\* wallet addresses on the feed; "" is an entry without a "user" key
L4Users == {"", "0xa", "0xb"}

\* sequences over S of length at most n
SeqUpTo(S, n) == UNION {[1..k -> S] : k \in 0..n}

\* raw orders of a snapshot message
L4SnapshotOrders == [oid : L4Oids, user : {"0xa"}, limitPx : Prices, sz : {1}]

\* raw diff entries; sz 0 removes
L4Diffs == [oid : L4Oids, user : L4Users \ {"0xa"}, limitPx : Prices, sz : 0..MaxSize]

\* the coins subscribed on the L4 feed
L4Coins == {"BTC"}

\* the data of a snapshot message (a key that is absent reads as the empty list)
L4SnapshotData ==
    [bids : SeqUpTo(L4SnapshotOrders, MaxL4Snapshot),
     asks : SeqUpTo(L4SnapshotOrders, MaxL4Snapshot),
     bidDiffs : {<<>>}, askDiffs : {<<>>}]

\* the data of a diff message
L4DiffData ==
    [bids : {<<>>}, asks : {<<>>},
     bidDiffs : SeqUpTo(L4Diffs, MaxL4Diffs),
     askDiffs : SeqUpTo(L4Diffs, MaxL4Diffs)]

NoL4Message ==
    [coin |-> "", had |-> FALSE, bids |-> <<>>, asks |-> <<>>,
     bidDiffs |-> <<>>, askDiffs |-> <<>>,
     time |-> 0, hit |-> {}, applied |-> "none", resent |-> FALSE]

\* L4Order.from_raw(raw, side)
L4OrderFromRaw(raw, side) ==
    [oid |-> raw.oid, user |-> raw.user, price |-> raw.limitPx, size |-> raw.sz,
     side |-> side]

\* OtherOrders dropping nothing
OtherOrdersKeepsAll(os, oid) == os

\* [o for o in orders if o.oid != oid]
OtherOrders(os, oid) == SelectSeq(os, LAMBDA o : o.oid # oid)

\* _apply_snapshot: for order_raw in ...: side.setdefault(order.price, []).append(order)
RECURSIVE GroupByPrice(_, _, _, _)
GroupByPrice(raws, side, i, acc) ==
    IF i > Len(raws) THEN acc
    ELSE LET order == L4OrderFromRaw(raws[i], side)
             at == IF order.price \in DOMAIN acc THEN acc[order.price] ELSE <<>>
         IN  GroupByPrice(raws, side, i + 1, Put(acc, order.price, Append(at, order)))

\* ApplySideDiff appending the entry's order without dropping the old one
ApplySideDiffAppendOnly(side_book, diff, side) ==
    LET oid == diff.oid
        px == diff.limitPx
        new_sz == diff.sz
    IN  IF new_sz = 0
        THEN IF px \in DOMAIN side_book
             THEN IF OtherOrders(side_book[px], oid) = <<>>
                  THEN Without(side_book, {px})
                  ELSE Put(side_book, px, OtherOrders(side_book[px], oid))
             ELSE side_book
        ELSE LET order == L4OrderFromRaw(diff, side)
             IN  IF px \in DOMAIN side_book
                 THEN Put(side_book, px, Append(side_book[px], order))
                 ELSE Put(side_book, px, <<order>>)

\* ApplySideDiff leaving the emptied list under its price
ApplySideDiffLeavesEmpty(side_book, diff, side) ==
    LET oid == diff.oid
        px == diff.limitPx
        new_sz == diff.sz
    IN  IF new_sz = 0
        THEN IF px \in DOMAIN side_book
             THEN Put(side_book, px, OtherOrders(side_book[px], oid))
             ELSE side_book
        ELSE LET order == L4OrderFromRaw(diff, side)
             IN  IF px \in DOMAIN side_book
                 THEN Put(side_book, px, Append(OtherOrders(side_book[px], oid), order))
                 ELSE Put(side_book, px, <<order>>)

\* _apply_side_diff(side_book, diff, side)
ApplySideDiff(side_book, diff, side) ==
    LET oid == diff.oid
        px == diff.limitPx
        new_sz == diff.sz
    IN  IF new_sz = 0
        THEN IF px \in DOMAIN side_book
             THEN IF OtherOrders(side_book[px], oid) = <<>>
                  THEN Without(side_book, {px})
                  ELSE Put(side_book, px, OtherOrders(side_book[px], oid))
             ELSE side_book
        ELSE LET order == L4OrderFromRaw(diff, side)
             IN  IF px \in DOMAIN side_book
                 THEN Put(side_book, px, Append(OtherOrders(side_book[px], oid), order))
                 ELSE Put(side_book, px, <<order>>)

\* _apply_diff: for diff in diffs: self._apply_side_diff(side_book, diff, side)
RECURSIVE ApplySideDiffs(_, _, _, _)
ApplySideDiffs(side_book, diffs, side, i) ==
    IF i > Len(diffs) THEN side_book
    ELSE ApplySideDiffs(ApplySideDiff(side_book, diffs[i], side), diffs, side, i + 1)

\* {px: tuple(orders) for px, orders in side.items() if orders}
FrozenSide(side_book) ==
    [px \in {q \in DOMAIN side_book : side_book[q] # <<>>} |-> side_book[px]]

\* _apply_diff(coin, data): the two sides after the message's entries
ApplyDiff(raw, data) ==
    [bids |-> ApplySideDiffs(raw.bids, data.bidDiffs, "B", 1),
     asks |-> ApplySideDiffs(raw.asks, data.askDiffs, "A", 1)]

\* L4BookSnapshot.best_bid and best_ask are None
NoPrice == 0

\* L4BookSnapshot.best_bid
L4BestBid(snapshot) ==
    IF DOMAIN snapshot.bids = {} THEN NoPrice
    ELSE CHOOSE px \in DOMAIN snapshot.bids : \A q \in DOMAIN snapshot.bids : q <= px

\* L4BookSnapshot.best_ask
L4BestAsk(snapshot) ==
    IF DOMAIN snapshot.asks = {} THEN NoPrice
    ELSE CHOOSE px \in DOMAIN snapshot.asks : \A q \in DOMAIN snapshot.asks : q >= px

\* whether an order with the entry's oid stands at the entry's price
L4Holds(side_book, diff) ==
    /\ diff.limitPx \in DOMAIN side_book
    /\ \E i \in DOMAIN side_book[diff.limitPx] : side_book[diff.limitPx][i].oid = diff.oid

\* the data of a snapshot message handled with callbacks registered
L4NotifySnapshotData ==
    {d \in L4SnapshotData : Len(d.bids) <= MaxL4Notify /\ Len(d.asks) <= MaxL4Notify}

\* what a callback can read of the coin's book when it is called
RawBookOf(raw, coin) ==
    IF coin \in DOMAIN raw
    THEN [had |-> TRUE, bids |-> raw[coin].bids, asks |-> raw[coin].asks]
    ELSE [had |-> FALSE, bids |-> <<>>, asks |-> <<>>]

\* NotifyCallbacks with the try around the loop: the first exception ends it
RECURSIVE NotifyCallbacksUntilRaise(_, _, _, _, _)
NotifyCallbacksUntilRaise(cbs, data, book, raises, i) ==
    IF i > Len(cbs) THEN <<>>
    ELSE <<[cb |-> cbs[i], data |-> data, book |-> book, raised |-> raises[i]]>>
         \o (IF raises[i] THEN <<>>
             ELSE NotifyCallbacksUntilRaise(cbs, data, book, raises, i + 1))

\* _handle_l4_message: `for cb in self._callbacks.get(coin, []):` with
\* `cb(coin, data)` in a try that catches and logs Exception; raises[i] tells
\* whether the i-th callback raises. The value is the calls made, each with
\* the payload it was given and the book as it stood at the call.
RECURSIVE NotifyCallbacks(_, _, _, _, _)
NotifyCallbacks(cbs, data, book, raises, i) ==
    IF i > Len(cbs) THEN <<>>
    ELSE <<[cb |-> cbs[i], data |-> data, book |-> book, raised |-> raises[i]]>>
         \o NotifyCallbacks(cbs, data, book, raises, i + 1)

\* ------------------------------------------------------- engine: pieces
\* on_tick returned None
NoDecision == [ret |-> "none", coin |-> "", cancel_all_first |-> FALSE, desired |-> <<>>]

\* on_tick has not been called in this tick
NotAsked == [NoDecision EXCEPT !.ret = "not asked"]

\* on_tick raised
RaisedDecision == [NoDecision EXCEPT !.ret = "raised"]

\* the orders a strategy asks for: DesiredOrder with its default order_type,
\* as place_bulk hands them to the backend for the decision's coin
DesiredFor(coin) ==
    {r \in Requests : r.coin = coin /\ r.order_type = "Gtc" /\ r.sz = 1}

\* StrategyDecision(coin, desired_orders, cancel_all_first)
Decisions ==
    {[ret |-> "decision", coin |-> coin, cancel_all_first |-> first, desired |-> desired] :
        coin \in Coins, first \in BOOLEAN,
        desired \in UNION {[1..n -> Requests] : n \in 0..MaxDesired}}

\* the decisions whose orders are for the decision's coin and fit the bound on
\* orders created
DecisionsWithin(room) ==
    {d \in Decisions : /\ Len(d.desired) <= room
                       /\ \A i \in 1..Len(d.desired) : d.desired[i] \in DesiredFor(d.coin)}

\* _tick: `if decision is not None:`
ExecutesDecisionAlways(d) == TRUE

ExecutesDecision(d) == d # NoDecision

\* _tick_loop: where an exception raised inside _tick() lands; the except
\* clause logs it and the loop goes on with the elapsed time
AfterRaiseLeavesLoop == "on_stop"

AfterRaise == "elapsed"

\* the sub-steps of shutdown, in the order of the code
ShutdownSteps ==
    <<[step |-> "on_stop", coin |-> ""]>>
    \o [i \in 1..Len(SubCoins) |-> [step |-> "cancel_all", coin |-> SubCoins[i]]]
    \o <<[step |-> "l4_stop", coin |-> ""], [step |-> "recorder_close", coin |-> ""],
         [step |-> "gateway_shutdown", coin |-> ""]>>

\* OrderManager.cancel_all(coin) over the paper backend: the backend call, then
\* the marking; the value is <<orders, paper>>
EngineCancelAll(os, p, coin, t) ==
    <<[c \in DOMAIN os |-> CancelOrder(os[c], coin, t)], PaperCancelAll(p, coin)>>

\* OrderManager.place_bulk(coin, desired) over the paper backend: the orders
\* inserted, the backend call, the response applied; the value is
\* <<orders, oid_to_cloid, cloid_counter, paper>>
EnginePlaceBulk(os, rev, counter, p, coin, desired, t) ==
    LET n == Len(desired)
        cloids == [i \in 1..n |-> counter + i]
        inserted == [c \in (DOMAIN os) \cup Range(cloids) |->
                        IF c \in Range(cloids) THEN NewOrder(coin, desired[c - counter].sz, t)
                        ELSE os[c]]
        snaps == [i \in 1..n |-> [raised |-> TRUE, book |-> NoBook]]
        r == PaperPlaceBulk(p, desired, snaps, 1, <<>>)
        b == BulkApply(inserted, rev, cloids, r.statuses, 1)
    IN <<b[1], b[2], counter + n, r.paper>>

\* -------------------------------------------------------- locks: pieces
\* The calls that take OrderManager._lock or PaperExecution._lock, each as the
\* sequence of its lock operations and of the calls it makes with or without
\* a lock: "acq_om" / "rel_om" and "acq_paper" / "rel_paper" open and close a
\* `with self._lock:` block, "enter_x" / "leave_x" open and close an
\* execution-backend call, a venue REST fetch or a strategy callback.

\* the engine's tick thread and the SDK's websocket thread
LockThreads == {"engine", "ws"}

IdleLockThread ==
    [prog |-> <<>>, i |-> 1, backend |-> FALSE, rest_fetch |-> FALSE, strategy |-> FALSE]

WithOm == <<"acq_om", "rel_om">>

WithPaper == <<"acq_paper", "rel_paper">>

\* PaperExecution._try_immediate_fill: l2_snapshot, then _simulate_fill under
\* the lock when the order crosses
TryImmediateFillProg(fills) ==
    <<"enter_rest", "leave_rest">> \o (IF fills THEN WithPaper ELSE <<>>)

\* PaperExecution.place_order: the oid under the lock, then the immediate fill
\* of an Ioc order or the insert under the lock
PaperPlaceOrderProg(kind) ==
    WithPaper \o (CASE kind = "ioc_fill" -> TryImmediateFillProg(TRUE)
                    [] kind = "ioc_none" -> TryImmediateFillProg(FALSE)
                    [] OTHER -> WithPaper)

\* what a placement can be for the paper backend
PlaceKinds == {"gtc", "ioc_fill", "ioc_none"}

\* PaperExecution.place_bulk_orders: place_order for each request
RECURSIVE PaperPlaceBulkProg(_, _)
PaperPlaceBulkProg(kinds, i) ==
    IF i > Len(kinds) THEN <<>>
    ELSE PaperPlaceOrderProg(kinds[i]) \o PaperPlaceBulkProg(kinds, i + 1)

\* the live backend's call: a request to the venue
LiveCallProg == <<"enter_rest", "leave_rest">>

\* the backend calls of a placement of n orders: the paper backend's, or the
\* live one's
BackendPlaceProgs(n) ==
    {PaperPlaceBulkProg(kinds, 1) : kinds \in [1..n -> PlaceKinds]} \cup {LiveCallProg}

\* place_order / place_bulk with the backend call inside the first block
PlaceProgLocked(call) ==
    <<"acq_om", "enter_backend">> \o call \o <<"leave_backend", "rel_om">> \o WithOm

\* OrderManager.place_order / place_bulk: insert under the lock, the backend
\* call, then the response (or, when the call raised, the rejection) under the
\* lock
PlaceProg(call) ==
    WithOm \o <<"enter_backend">> \o call \o <<"leave_backend">> \o WithOm

\* OrderManager.cancel_all: the backend's cancel_all, then the marking
CancelAllProg(live) ==
    <<"enter_backend">> \o (IF live THEN LiveCallProg ELSE WithPaper)
    \o <<"leave_backend">> \o WithOm

\* order_manager.on_fill(fill), then strategy.on_fill(fill)
OnFillProg == WithOm \o <<"enter_strategy", "leave_strategy">>

RECURSIVE Repeat(_, _)
Repeat(prog, n) == IF n = 0 THEN <<>> ELSE prog \o Repeat(prog, n - 1)

\* Engine._tick in paper mode, up to the loop over the coins:
\* check_resting_orders, on_fill for each of its n fills, and get_user_state
TickCheckProg(n) ==
    <<"enter_backend">> \o WithPaper \o <<"leave_backend">> \o Repeat(OnFillProg, n)
    \o <<"enter_backend">> \o WithPaper \o <<"leave_backend">>

\* Engine._tick for one coin: get_open_orders, strategy.on_tick
OnTickProg == WithOm \o <<"enter_strategy", "leave_strategy">>

\* the calls of the tick thread
EnginePrograms ==
    UNION {{PlaceProg(call) : call \in BackendPlaceProgs(n)} : n \in 1..MaxBulk}
    \cup {CancelAllProg(live) : live \in BOOLEAN}
    \cup {TickCheckProg(n) : n \in 0..MaxBulk}
    \cup {OnTickProg}

\* the calls of the websocket thread: _on_user_fills with one fill,
\* _on_order_updates
WsPrograms == {OnFillProg, WithOm}

ProgramsOf(t) == IF t = "engine" THEN EnginePrograms ELSE WsPrograms

\* the instruction thread t is at
LockAt(t) ==
    IF lk_thr[t].i <= Len(lk_thr[t].prog) THEN lk_thr[t].prog[lk_thr[t].i] ELSE "end"

\* thread t after its instruction
LockAdvance(t) == [lk_thr EXCEPT ![t].i = @ + 1]

\* ------------------------------------------------------------------ Init
Init ==
    /\ orders = <<>>
    /\ oid_to_cloid = <<>>
    /\ cloid_counter = 0
    /\ pc = "idle"
    /\ cur = NoCall
    /\ last = Returned(NoCall)
    /\ venue = <<>>
    /\ next_oid = 1
    /\ ws = <<>>
    /\ now = 0
    /\ callers = [t \in Threads |-> IdleCaller]
    /\ created = <<>>
    /\ paper = NewPaper
    /\ p_call = NoPaperCall
    /\ p_ret = <<>>
    /\ book_store = <<>>
    /\ writers = [w \in Writers |-> IdleWriter]
    /\ got = NoGet
    /\ completed = <<>>
    /\ updates = 0
    /\ l4_books = <<>>
    /\ l4_raw = <<>>
    /\ l4_received = {}
    /\ l4_last = NoL4Message
    /\ l4_msgs = 0
    /\ l4_served = {}
    /\ l4_ws_ready = FALSE
    /\ l4_queued = <<>>
    /\ l4_link = "none"
    /\ l4_sock = [pc |-> "run", i |-> 0]
    /\ l4_caller = [pc |-> "test", i |-> 1]
    /\ l4_sent = {}
    /\ l4_connects = 0
    /\ l4_live = {}
    /\ e_pc = "loop"
    /\ e_i = 0
    /\ e_running = TRUE
    /\ e_clock = 0
    /\ e_tick_start = 0
    /\ e_deadline = 0
    /\ e_ticks = 0
    /\ e_decision = NotAsked
    /\ e_calls = <<>>
    /\ e_raised = 0
    /\ e_shut = <<>>
    /\ lk_om = ""
    /\ lk_paper = ""
    /\ lk_thr = [t \in LockThreads |-> IdleLockThread]
    /\ l4_callbacks = [coin \in L4Coins |-> <<>>]
    /\ l4_notified = <<>>

\* -------------------------------------------- engine thread: placement
\* place_order up to the backend call: _next_cloid, Order(...), insert under the lock
PlaceOrder ==
    /\ pc = "idle"
    /\ cloid_counter < MaxOrders
    /\ \E coin \in Coins, size \in 1..MaxSize :
         LET c == cloid_counter + 1
         IN /\ cloid_counter' = c
            /\ orders' = Put(orders, c, NewOrder(coin, size, now))
            /\ cur' = [NoCall EXCEPT !.op = "place_order", !.coin = coin, !.cloids = <<c>>]
    /\ pc' = "place_call"
    /\ UNCHANGED <<oid_to_cloid, last, venue, next_oid, ws, now, aside>>

\* place_bulk up to the backend call
PlaceBulk ==
    /\ pc = "idle"
    /\ \E coin \in Coins, n \in 1..MaxBulk :
         /\ cloid_counter + n <= MaxOrders
         /\ \E sizes \in [1..n -> 1..MaxSize] :
              LET cloids == [i \in 1..n |-> cloid_counter + i]
              IN /\ cloid_counter' = cloid_counter + n
                 /\ orders' = [c \in (DOMAIN orders) \cup Range(cloids) |->
                                 IF c \in Range(cloids)
                                 THEN NewOrder(coin, sizes[c - cloid_counter], now)
                                 ELSE orders[c]]
                 /\ cur' = [NoCall EXCEPT !.op = "place_bulk", !.coin = coin, !.cloids = cloids]
    /\ pc' = "place_call"
    /\ UNCHANGED <<oid_to_cloid, last, venue, next_oid, ws, now, aside>>


\* ------------------------------------------------- the venue (environment)
\* The venue keeps, for every order it accepted, what it really did with it.
\* Everything it does is reported on the WebSocket, in order: a fill as a
\* userFills message, a change of state as an orderUpdates message.
StatusKinds == {"resting", "filled", "error"}

NewVenueOrder(c, coin, size, kind) ==
    [cloid |-> c, coin |-> coin, size |-> size,
     filled |-> IF kind = "filled" THEN size ELSE 0,
     state |-> kind]

\* oid the venue gives to the i-th order of a request (NoOid when it refuses it)
OidFor(kinds, i) ==
    IF kinds[i] = "error" THEN NoOid
    ELSE next_oid + Cardinality({j \in 1..(i - 1) : kinds[j] # "error"})

\* ExecutionBackend.place_order / place_bulk_orders: the request reaches the
\* venue, which rests, fills or refuses each order and answers with one status
\* per order ("ok"), or the answer comes back one status short ("short"), or
\* the call raises before anything was placed ("raise")
BackendPlace ==
    /\ pc = "place_call"
    /\ pc' = "place_resp"
    /\ \/ /\ cur' = [cur EXCEPT !.raised = TRUE]
          /\ UNCHANGED <<venue, next_oid, ws>>
       \/ \E kinds \in [1..Len(cur.cloids) -> StatusKinds], short \in BOOLEAN :
            LET n == Len(cur.cloids)
                accepted == {i \in 1..n : kinds[i] # "error"}
                statuses == [i \in 1..n |-> [kind |-> kinds[i], oid |-> OidFor(kinds, i)]]
                fills == [k \in 1..Cardinality({i \in accepted : kinds[i] = "filled"}) |->
                            LET i == SortedSeq({j \in accepted : kinds[j] = "filled"})[k]
                            IN FillMsg(OidFor(kinds, i), orders[cur.cloids[i]].size)]
                ups == [k \in 1..Cardinality(accepted) |->
                            LET i == SortedSeq(accepted)[k]
                            IN [oid |-> OidFor(kinds, i),
                                tag |-> IF kinds[i] = "filled" THEN "filled" ELSE "open"]]
                out == fills \o (IF accepted = {} THEN <<>> ELSE <<UpdatesMsg(ups)>>)
            IN /\ Len(ws) + Len(out) <= MaxQueue
               /\ ws' = ws \o out
               /\ next_oid' = next_oid + Cardinality(accepted)
               /\ venue' = [o \in (DOMAIN venue) \cup {OidFor(kinds, i) : i \in accepted} |->
                              IF o \in DOMAIN venue THEN venue[o]
                              ELSE LET i == CHOOSE j \in accepted : OidFor(kinds, j) = o
                                   IN NewVenueOrder(cur.cloids[i], cur.coin,
                                                    orders[cur.cloids[i]].size, kinds[i])]
               /\ cur' = [cur EXCEPT !.statuses =
                            IF short THEN SubSeq(statuses, 1, n - 1) ELSE statuses]
    /\ UNCHANGED <<orders, oid_to_cloid, cloid_counter, last, now, aside>>

\* the venue matches part or all of what is left of a resting order
VenueFill ==
    \E o \in DOMAIN venue :
        /\ venue[o].state = "resting"
        /\ \E sz \in 1..(venue[o].size - venue[o].filled) :
             LET done == venue[o].filled + sz = venue[o].size
                 out == <<FillMsg(o, sz)>> \o
                        (IF done THEN <<UpdatesMsg(<<[oid |-> o, tag |-> "filled"]>>)>> ELSE <<>>)
             IN /\ Len(ws) + Len(out) <= MaxQueue
                /\ ws' = ws \o out
                /\ venue' = [venue EXCEPT ![o].filled = @ + sz,
                                          ![o].state = IF done THEN "filled" ELSE "resting"]
        /\ UNCHANGED <<orders, oid_to_cloid, cloid_counter, pc, cur, last, next_oid, now, aside>>

\* the venue throws out a resting order nothing of which has been filled
VenueReject ==
    \E o \in DOMAIN venue :
        /\ venue[o].state = "resting"
        /\ venue[o].filled = 0
        /\ Len(ws) < MaxQueue
        /\ ws' = Append(ws, UpdatesMsg(<<[oid |-> o, tag |-> "rejected"]>>))
        /\ venue' = [venue EXCEPT ![o].state = "rejected"]
        /\ UNCHANGED <<orders, oid_to_cloid, cloid_counter, pc, cur, last, next_oid, now, aside>>

\* -------------------------------- engine thread: the placement response
\* place_order: _process_order_response(cloid, result), then return
ProcessOrderResponse ==
    /\ pc = "place_resp"
    /\ cur.op = "place_order"
    /\ ~cur.raised
    /\ LET c == cur.cloids[1]
       IN IF c \in DOMAIN orders /\ cur.statuses # <<>>
          THEN /\ orders' = [orders EXCEPT ![c] = ApplyStatus(orders[c], cur.statuses[1])]
               /\ oid_to_cloid' = ApplyStatusIndex(oid_to_cloid, c, cur.statuses[1])
          ELSE UNCHANGED <<orders, oid_to_cloid>>
    /\ pc' = "idle"
    /\ last' = Returned(cur)
    /\ cur' = NoCall
    /\ UNCHANGED <<cloid_counter, venue, next_oid, ws, now, aside>>

\* PlaceOrderFailed with an except branch that only logs
PlaceOrderFailedLogOnly ==
    /\ pc = "place_resp"
    /\ cur.op = "place_order"
    /\ cur.raised
    /\ pc' = "idle"
    /\ last' = [Returned(cur) EXCEPT !.raised = FALSE]
    /\ cur' = NoCall
    /\ UNCHANGED <<orders, oid_to_cloid, cloid_counter, venue, next_oid, ws, now, aside>>

\* place_order: the except branch, then return
PlaceOrderFailed ==
    /\ pc = "place_resp"
    /\ cur.op = "place_order"
    /\ cur.raised
    /\ orders' = [orders EXCEPT ![cur.cloids[1]].status = "rejected"]
    /\ pc' = "idle"
    /\ last' = [Returned(cur) EXCEPT !.raised = FALSE]
    /\ cur' = NoCall
    /\ UNCHANGED <<oid_to_cloid, cloid_counter, venue, next_oid, ws, now, aside>>

\* place_bulk: _process_bulk_response(orders, result), then return
ProcessBulkResponse ==
    /\ pc = "place_resp"
    /\ cur.op = "place_bulk"
    /\ ~cur.raised
    /\ LET r == BulkApply(orders, oid_to_cloid, cur.cloids, cur.statuses, 1)
       IN /\ orders' = r[1]
          /\ oid_to_cloid' = r[2]
    /\ pc' = "idle"
    /\ last' = Returned(cur)
    /\ cur' = NoCall
    /\ UNCHANGED <<cloid_counter, venue, next_oid, ws, now, aside>>

\* place_bulk: the except branch, then return
PlaceBulkFailed ==
    /\ pc = "place_resp"
    /\ cur.op = "place_bulk"
    /\ cur.raised
    /\ orders' = [c \in DOMAIN orders |->
                    IF c \in Range(cur.cloids) THEN [orders[c] EXCEPT !.status = "rejected"]
                    ELSE orders[c]]
    /\ pc' = "idle"
    /\ last' = [Returned(cur) EXCEPT !.raised = FALSE]
    /\ cur' = NoCall
    /\ UNCHANGED <<oid_to_cloid, cloid_counter, venue, next_oid, ws, now, aside>>


\* ------------------------------------------- engine thread: cancel_all
\* cancel_all(coin): the backend call. The venue cancels what it has resting
\* for the coin and the call returns, or the call raises (and cancel_all with it)
CancelAllCall ==
    /\ pc = "idle"
    /\ \E coin \in Coins :
         \/ /\ pc' = "idle"
            /\ last' = [op |-> "cancel_all", coin |-> coin, raised |-> TRUE,
                         cloids |-> <<>>, max_age |-> 0]
            /\ UNCHANGED <<cur, venue, ws>>
         \/ LET hit == {o \in DOMAIN venue : venue[o].coin = coin /\ venue[o].state = "resting"}
                ups == [k \in 1..Cardinality(hit) |->
                          [oid |-> SortedSeq(hit)[k], tag |-> "canceled"]]
                out == IF hit = {} THEN <<>> ELSE <<UpdatesMsg(ups)>>
            IN /\ Len(ws) + Len(out) <= MaxQueue
               /\ ws' = ws \o out
               /\ venue' = [o \in DOMAIN venue |->
                              IF o \in hit THEN [venue[o] EXCEPT !.state = "canceled"]
                              ELSE venue[o]]
               /\ pc' = "cancel_mark"
               /\ cur' = [NoCall EXCEPT !.op = "cancel_all", !.coin = coin]
               /\ UNCHANGED last
    /\ UNCHANGED <<orders, oid_to_cloid, cloid_counter, next_oid, now, aside>>

\* cancel_all(coin): the marking loop under the lock, then return
CancelAllMark ==
    /\ pc = "cancel_mark"
    /\ orders' = [c \in DOMAIN orders |-> CancelOrder(orders[c], cur.coin, now)]
    /\ pc' = "idle"
    /\ last' = Returned(cur)
    /\ cur' = NoCall
    /\ UNCHANGED <<oid_to_cloid, cloid_counter, venue, next_oid, ws, now, aside>>

\* CleanupTerminal comparing with <= where the code has <
CleanupTerminalInclusive ==
    /\ pc = "idle"
    /\ \E max_age \in MaxAges :
         LET cutoff == now - max_age
             to_remove == {c \in DOMAIN orders :
                             IsTerminal(orders[c]) /\ orders[c].updated_at_ms <= cutoff}
         IN /\ orders' = Without(orders, to_remove)
            /\ oid_to_cloid' = Without(oid_to_cloid,
                                       {orders[c].oid : c \in to_remove} \ {NoOid})
            /\ last' = [op |-> "cleanup_terminal", coin |-> "", raised |-> FALSE,
                         cloids |-> <<>>, max_age |-> max_age]
    /\ UNCHANGED <<cloid_counter, pc, cur, venue, next_oid, ws, now, aside>>

\* CleanupTerminal leaving the reverse map as it is
CleanupTerminalKeepsIndex ==
    /\ pc = "idle"
    /\ \E max_age \in MaxAges :
         LET cutoff == now - max_age
             to_remove == {c \in DOMAIN orders :
                             IsTerminal(orders[c]) /\ orders[c].updated_at_ms < cutoff}
         IN /\ orders' = Without(orders, to_remove)
            /\ last' = [op |-> "cleanup_terminal", coin |-> "", raised |-> FALSE,
                         cloids |-> <<>>, max_age |-> max_age]
    /\ UNCHANGED <<oid_to_cloid, cloid_counter, pc, cur, venue, next_oid, ws, now, aside>>

\* cleanup_terminal(max_age_ms)
CleanupTerminal ==
    /\ pc = "idle"
    /\ \E max_age \in MaxAges :
         LET cutoff == now - max_age
             to_remove == {c \in DOMAIN orders :
                             IsTerminal(orders[c]) /\ orders[c].updated_at_ms < cutoff}
         IN /\ orders' = Without(orders, to_remove)
            /\ oid_to_cloid' = Without(oid_to_cloid,
                                       {orders[c].oid : c \in to_remove} \ {NoOid})
            /\ last' = [op |-> "cleanup_terminal", coin |-> "", raised |-> FALSE,
                         cloids |-> <<>>, max_age |-> max_age]
    /\ UNCHANGED <<cloid_counter, pc, cur, venue, next_oid, ws, now, aside>>

\* ------------------------------------------------------ WebSocket thread
\* OnFill finding the order through the client id the venue keeps with the
\* order, instead of through the reverse index
OnFillByCloid ==
    /\ ws # <<>>
    /\ Head(ws).type = "fill"
    /\ ws' = Tail(ws)
    /\ LET oid == Head(ws).oid
           found == oid \in DOMAIN venue /\ venue[oid].cloid \in DOMAIN orders
       IN IF found
          THEN \E ts \in 0..(now + MaxSkew) :
                   orders' = [orders EXCEPT ![venue[oid].cloid] =
                                FillOrder(@, [oid |-> oid, size |-> Head(ws).size, ts |-> ts])]
          ELSE UNCHANGED orders
    /\ UNCHANGED <<oid_to_cloid, cloid_counter, pc, cur, last, venue, next_oid, now, aside>>

\* on_fill(fill) for the userFills message at the head of the socket; the
\* fill's timestamp_ms is the venue's, at most MaxSkew ahead of the local clock
OnFill ==
    /\ ws # <<>>
    /\ Head(ws).type = "fill"
    /\ ws' = Tail(ws)
    /\ LET oid == Head(ws).oid
           found == oid \in DOMAIN oid_to_cloid /\ oid_to_cloid[oid] \in DOMAIN orders
       IN IF found
          THEN \E ts \in 0..(now + MaxSkew) :
                   orders' = [orders EXCEPT ![oid_to_cloid[oid]] =
                                FillOrder(@, [oid |-> oid, size |-> Head(ws).size, ts |-> ts])]
          ELSE UNCHANGED orders
    /\ UNCHANGED <<oid_to_cloid, cloid_counter, pc, cur, last, venue, next_oid, now, aside>>

\* on_order_update(data) for the orderUpdates message at the head of the socket
OnOrderUpdate ==
    /\ ws # <<>>
    /\ Head(ws).type = "updates"
    /\ ws' = Tail(ws)
    /\ orders' = UpdatesApply(orders, oid_to_cloid, Head(ws).list, now, 1)
    /\ UNCHANGED <<oid_to_cloid, cloid_counter, pc, cur, last, venue, next_oid, now, aside>>

\* ----------------------------------------------------------------- clock
Tick ==
    /\ now < MaxTime
    /\ now' = now + 1
    /\ UNCHANGED <<orders, oid_to_cloid, cloid_counter, pc, cur, last, venue, next_oid, ws,
                   aside>>

\* -------------------------------------- several callers of place_order
\* place_order (one order) or place_bulk (n orders) entered by thread t
CallerEnter(t) ==
    /\ callers[t].pc = "idle"
    /\ \E coin \in Coins, n \in 1..MaxBulk :
         /\ Len(created) + callers["t1"].todo + callers["t2"].todo + n <= MaxCreated
         /\ callers' = [callers EXCEPT ![t] = [IdleCaller EXCEPT !.pc = "load", !.coin = coin,
                                                                !.todo = n]]
    /\ UNCHANGED <<orders, oid_to_cloid, cloid_counter, pc, cur, last, venue, next_oid, ws, now,
                   created, paper, p_call, p_ret, bookVars, l4Vars, rest>>

\* _next_cloid, self._cloid_counter += 1: the read of the attribute
NextCloidLoad(t) ==
    /\ callers[t].pc = "load"
    /\ callers' = [callers EXCEPT ![t].tmp = cloid_counter, ![t].pc = "store"]
    /\ UNCHANGED <<orders, oid_to_cloid, cloid_counter, pc, cur, last, venue, next_oid, ws, now,
                   created, paper, p_call, p_ret, bookVars, l4Vars, rest>>

\* _next_cloid, self._cloid_counter += 1: the write of the attribute
NextCloidStore(t) ==
    /\ callers[t].pc = "store"
    /\ cloid_counter' = callers[t].tmp + 1
    /\ callers' = [callers EXCEPT ![t].pc = "format"]
    /\ UNCHANGED <<orders, oid_to_cloid, pc, cur, last, venue, next_oid, ws, now, created,
                   paper, p_call, p_ret, bookVars, l4Vars, rest>>

\* _next_cloid, the return statement, which reads the attribute again, and
\* Order(..., cloid=cloid) made from it
NextCloidReturn(t) ==
    /\ callers[t].pc = "format"
    /\ LET cloid == CloidRaw(cloid_counter)
       IN /\ created' = Append(created, cloid)
          /\ callers' = [callers EXCEPT ![t].made = Append(@, cloid),
                                        ![t].todo = @ - 1,
                                        ![t].pc = IF callers[t].todo = 1 THEN "insert"
                                                  ELSE "load"]
    /\ UNCHANGED <<orders, oid_to_cloid, cloid_counter, pc, cur, last, venue, next_oid, ws, now,
                   paper, p_call, p_ret, bookVars, l4Vars, rest>>

\* with self._lock: self._orders[cloid] = order, for every order of the call;
\* the backend call and the response that follow do not touch the counter
CallerInsert(t) ==
    /\ callers[t].pc = "insert"
    /\ \E size \in 1..MaxSize :
         orders' = [c \in (DOMAIN orders) \cup Range(callers[t].made) |->
                      IF c \in Range(callers[t].made)
                      THEN NewOrder(callers[t].coin, size, now)
                      ELSE orders[c]]
    /\ callers' = [callers EXCEPT ![t] = IdleCaller]
    /\ UNCHANGED <<oid_to_cloid, cloid_counter, pc, cur, last, venue, next_oid, ws, now,
                   created, paper, p_call, p_ret, bookVars, l4Vars, rest>>

NextCallers ==
    \/ \E t \in Threads : CallerEnter(t)
    \/ \E t \in Threads : NextCloidLoad(t)
    \/ \E t \in Threads : NextCloidStore(t)
    \/ \E t \in Threads : NextCloidReturn(t)
    \/ \E t \in Threads : CallerInsert(t)

\* SpecCallers: two threads placing orders through one OrderManager
SpecCallers == Init /\ [][NextCallers]_vars

\* ------------------------------------------------- engine in paper mode
\* In paper mode the gateway's backend is PaperExecution, no user events are
\* subscribed to, and every call below comes from the tick thread. A
\* placement is cut as in the order manager: insert (the arguments of the
\* backend call are in p_call) | backend call | response.

\* the snapshots l2_snapshot can answer a request with: asked for Ioc only
SnapshotsFor(req) ==
    IF TifOf(req.order_type) = "Ioc" THEN Snapshots
    ELSE {[raised |-> TRUE, book |-> NoBook]}

\* OrderManager.place_order(coin, side, price, size, order_type) up to the
\* backend call
PaperModePlaceOrder ==
    /\ pc = "idle"
    /\ cloid_counter < MaxPaperOrders
    /\ \E req \in Requests :
         \E snap \in SnapshotsFor(req) :
            LET c == cloid_counter + 1
            IN /\ cloid_counter' = c
               /\ orders' = Put(orders, c, NewOrder(req.coin, req.sz, now))
               /\ cur' = [NoCall EXCEPT !.op = "place_order", !.coin = req.coin,
                                        !.cloids = <<c>>]
               /\ p_call' = [NoPaperCall EXCEPT !.op = "place_order", !.reqs = <<req>>,
                                                !.snaps = <<snap>>]
    /\ pc' = "place_call"
    /\ UNCHANGED <<oid_to_cloid, last, venue, next_oid, ws, now, callers, created,
                   paper, p_ret, bookVars, l4Vars, rest>>

\* OrderManager.place_bulk(coin, desired) up to the backend call
PaperModePlaceBulk ==
    /\ pc = "idle"
    /\ \E coin \in Coins, n \in 1..MaxBulk :
         /\ cloid_counter + n <= MaxPaperOrders
         /\ \E reqs \in [1..n -> {r \in Requests : r.coin = coin}] :
              \E snaps \in [1..n -> Snapshots] :
                 /\ \A i \in 1..n : snaps[i] \in SnapshotsFor(reqs[i])
                 /\ LET cloids == [i \in 1..n |-> cloid_counter + i]
                    IN /\ cloid_counter' = cloid_counter + n
                       /\ orders' = [c \in (DOMAIN orders) \cup Range(cloids) |->
                                       IF c \in Range(cloids)
                                       THEN NewOrder(coin, reqs[c - cloid_counter].sz, now)
                                       ELSE orders[c]]
                       /\ cur' = [NoCall EXCEPT !.op = "place_bulk", !.coin = coin,
                                                !.cloids = cloids]
                       /\ p_call' = [NoPaperCall EXCEPT !.op = "place_bulk", !.reqs = reqs,
                                                        !.snaps = snaps]
    /\ pc' = "place_call"
    /\ UNCHANGED <<oid_to_cloid, last, venue, next_oid, ws, now, callers, created,
                   paper, p_ret, bookVars, l4Vars, rest>>

\* PaperExecution.place_order / place_bulk_orders called by the order manager
PaperBackendPlace ==
    /\ pc = "place_call"
    /\ p_call.op \in {"place_order", "place_bulk"}
    /\ LET r == PaperPlaceBulk(paper, p_call.reqs, p_call.snaps, 1, <<>>)
           one == PaperPlaceOrder(paper, p_call.reqs[1], p_call.snaps[1])
       IN IF p_call.op = "place_order"
          THEN /\ paper' = one.paper
               /\ cur' = [cur EXCEPT !.statuses = <<one.status>>]
          ELSE /\ paper' = r.paper
               /\ cur' = [cur EXCEPT !.statuses = r.statuses]
    /\ p_call' = NoPaperCall
    /\ pc' = "place_resp"
    /\ UNCHANGED <<orders, oid_to_cloid, cloid_counter, last, venue, next_oid, ws, now,
                   callers, created, p_ret, bookVars, l4Vars, rest>>

\* OrderManager.cancel_all(coin): PaperExecution.cancel_all(coin)
PaperModeCancelAll ==
    /\ pc = "idle"
    /\ \E coin \in Coins :
         /\ paper' = PaperCancelAll(paper, coin)
         /\ cur' = [NoCall EXCEPT !.op = "cancel_all", !.coin = coin]
    /\ pc' = "cancel_mark"
    /\ UNCHANGED <<orders, oid_to_cloid, cloid_counter, last, venue, next_oid, ws, now,
                   callers, created, p_call, p_ret, bookVars, l4Vars, rest>>

\* Engine._tick in paper mode: on_fill for each fill check_resting_orders gave
RECURSIVE FillsApply(_, _, _, _, _)
FillsApply(os, rev, fills, t, i) ==
    IF i > Len(fills) THEN os
    ELSE LET oid == fills[i].oid
             found == oid \in DOMAIN rev /\ rev[oid] \in DOMAIN os
         IN FillsApply(IF found
                       THEN [os EXCEPT ![rev[oid]] =
                               FillOrder(@, [oid |-> oid, size |-> fills[i].sz, ts |-> t])]
                       ELSE os,
                       rev, fills, t, i + 1)

\* Engine._tick in paper mode: books = self.orderbook.get_all(),
\* check_resting_orders(books), then on_fill for each new fill
PaperModeCheck ==
    /\ pc = "idle"
    /\ \E books \in BookMaps :
         LET r == CheckRestingOrders(paper, books)
         IN /\ paper' = r.paper
            /\ p_ret' = r.fills
            /\ orders' = FillsApply(orders, oid_to_cloid, r.fills, now, 1)
    /\ UNCHANGED <<oid_to_cloid, cloid_counter, pc, cur, last, venue, next_oid, ws, now,
                   callers, created, p_call, bookVars, l4Vars, rest>>

NextPaper ==
    \/ PaperModePlaceOrder
    \/ PaperModePlaceBulk
    \/ PaperBackendPlace
    \/ ProcessOrderResponse
    \/ ProcessBulkResponse
    \/ PaperModeCancelAll
    \/ CancelAllMark
    \/ PaperModeCheck

\* SpecPaper: the order manager over the paper backend, driven by the tick thread
SpecPaper == Init /\ [][NextPaper]_vars

\* ------------------------------------------ paper backend: fills alone
\* _simulate_fill for an order of the backend's next oid: what a sequence of
\* fills does to the positions and the cash balance
ApplyFill ==
    /\ Len(paper.fills) < MaxFills
    /\ \E coin \in Coins, is_buy \in BOOLEAN, sz \in 1..MaxSize, px \in Prices :
         paper' = SimulateFill([paper EXCEPT !.next_oid = @ + 1],
                               [coin |-> coin, is_buy |-> is_buy, sz |-> sz,
                                oid |-> paper.next_oid],
                               px)
    /\ UNCHANGED <<orders, oid_to_cloid, cloid_counter, pc, cur, last, venue, next_oid, ws, now,
                   callers, created, p_call, p_ret, bookVars, l4Vars, rest>>

NextFills == ApplyFill

\* SpecFills: any sequence of at most MaxFills fills
SpecFills == Init /\ [][NextFills]_vars

\* ------------------------------------------------------------ book store
\* OrderBook.update(data), before the lock: snapshot = BookSnapshot.from_sdk(data)
BookUpdateBuild(w) ==
    /\ writers[w].pc = "idle"
    /\ updates < MaxUpdates
    /\ updates' = updates + 1
    /\ \E coin \in Coins, book \in Books :
         LET data == L2Data(coin, book, updates + 1)
         IN  writers' = [writers EXCEPT ![w] =
                            [pc |-> "write", data |-> data,
                             snapshot |-> BookSnapshotFromSdk(data)]]
    /\ UNCHANGED <<orders, oid_to_cloid, cloid_counter, pc, cur, last, venue, next_oid, ws, now,
                   callers, created, paperVars, l4Vars, book_store, got, completed, rest>>

\* OrderBook.update(data), under the lock: the write, then the return
BookUpdateWrite(w) ==
    /\ writers[w].pc = "write"
    /\ book_store' = StoreWrite(book_store, writers[w].snapshot)
    /\ completed' = Put(completed, writers[w].data.coin, writers[w].data)
    /\ writers' = [writers EXCEPT ![w] = IdleWriter]
    /\ UNCHANGED <<orders, oid_to_cloid, cloid_counter, pc, cur, last, venue, next_oid, ws, now,
                   callers, created, paperVars, l4Vars, got, updates, rest>>

\* OrderBook.get(coin)
BookGet ==
    /\ \E coin \in Coins :
         got' = [op |-> "get", coin |-> coin, value |-> StoreGet(book_store, coin)]
    /\ UNCHANGED <<orders, oid_to_cloid, cloid_counter, pc, cur, last, venue, next_oid, ws, now,
                   callers, created, paperVars, l4Vars, book_store, writers, completed, updates, rest>>

\* OrderBook.get_all()
BookGetAll ==
    /\ got' = [op |-> "get_all", coin |-> "", value |-> book_store]
    /\ UNCHANGED <<orders, oid_to_cloid, cloid_counter, pc, cur, last, venue, next_oid, ws, now,
                   callers, created, paperVars, l4Vars, book_store, writers, completed, updates, rest>>

NextBooks ==
    \/ \E w \in Writers : BookUpdateBuild(w)
    \/ \E w \in Writers : BookUpdateWrite(w)
    \/ BookGet
    \/ BookGetAll

\* SpecBooks: two writer threads and a reader on one OrderBook
SpecBooks == Init /\ [][NextBooks]_vars

\* ------------------------------------------------------------- L4 client
\* _handle_l4_message(msg) for the payload data of a message for coin
HandleL4(coin, data, time, resent) ==
    LET hit == IF coin \in DOMAIN l4_raw
               THEN {<<"B", i>> : i \in {j \in DOMAIN data.bidDiffs :
                            L4Holds(l4_raw[coin].bids, data.bidDiffs[j])}}
                    \cup
                    {<<"A", i>> : i \in {j \in DOMAIN data.askDiffs :
                            L4Holds(l4_raw[coin].asks, data.askDiffs[j])}}
               ELSE {}
        seen == [coin |-> coin, had |-> coin \in DOMAIN l4_raw, bids |-> data.bids, asks |-> data.asks,
                 bidDiffs |-> data.bidDiffs, askDiffs |-> data.askDiffs,
                 time |-> time, hit |-> hit, applied |-> "none", resent |-> resent]
    IN  IF coin = ""
        THEN /\ l4_last' = seen
             /\ UNCHANGED <<l4_books, l4_raw, l4_received>>
        ELSE IF coin \notin l4_received
        THEN \* _apply_snapshot(coin, data)
             LET bids == GroupByPrice(data.bids, "B", 1, <<>>)
                 asks == GroupByPrice(data.asks, "A", 1, <<>>)
             IN  /\ l4_last' = [seen EXCEPT !.applied = "snapshot"]
                 /\ l4_books' = Put(l4_books, coin,
                                    [coin |-> coin, bids |-> bids, asks |-> asks,
                                     timestamp_ms |-> time])
                 /\ l4_raw' = Put(l4_raw, coin, [bids |-> bids, asks |-> asks])
                 /\ l4_received' = l4_received \cup {coin}
        ELSE \* _apply_diff(coin, data)
             IF coin \notin DOMAIN l4_raw
             THEN /\ l4_last' = seen
                  /\ UNCHANGED <<l4_books, l4_raw, l4_received>>
             ELSE LET bids == ApplySideDiffs(l4_raw[coin].bids, data.bidDiffs, "B", 1)
                      asks == ApplySideDiffs(l4_raw[coin].asks, data.askDiffs, "A", 1)
                  IN  /\ l4_last' = [seen EXCEPT !.applied = "diff"]
                      /\ l4_raw' = Put(l4_raw, coin, [bids |-> bids, asks |-> asks])
                      /\ l4_books' = Put(l4_books, coin,
                                         [coin |-> coin, bids |-> FrozenSide(bids),
                                          asks |-> FrozenSide(asks),
                                          timestamp_ms |-> time])
                      /\ UNCHANGED l4_received

\* _handle_l4_message(msg), from _on_message on the WebSocket thread: the
\* first message for a coin after a connect is taken as its snapshot, every
\* later one as a diff. The server sends them in that order; no callbacks
\* are registered.
HandleL4Message ==
    /\ l4_msgs < MaxL4Messages
    /\ l4_msgs' = l4_msgs + 1
    /\ \E coin \in L4Coins \cup {""} :
       \E data \in IF coin \in l4_served THEN L4DiffData ELSE L4SnapshotData :
         /\ HandleL4(coin, data, l4_msgs + 1, FALSE)
         /\ l4_served' = IF coin = "" THEN l4_served ELSE l4_served \cup {coin}
    /\ UNCHANGED <<orders, oid_to_cloid, cloid_counter, pc, cur, last, venue, next_oid, ws, now,
                   callers, created, paperVars, bookVars, rest>>

\* _handle_l4_message(msg) for a diff message the server sends a second time
L4Redeliver ==
    /\ l4_last.applied = "diff"
    /\ ~l4_last.resent
    /\ l4_last.coin \in l4_served
    /\ HandleL4(l4_last.coin, l4_last, l4_last.time, TRUE)
    /\ UNCHANGED <<orders, oid_to_cloid, cloid_counter, pc, cur, last, venue, next_oid, ws, now,
                   callers, created, paperVars, bookVars, l4_msgs, l4_served, rest>>

\* L4Connect leaving the snapshot markers of the connection before
L4ConnectKeepsMarkers ==
    /\ l4_served # {}
    /\ l4_served' = {}
    /\ UNCHANGED <<orders, oid_to_cloid, cloid_counter, pc, cur, last, venue, next_oid, ws, now,
                   callers, created, paperVars, bookVars,
                   l4_books, l4_raw, l4_last, l4_msgs, l4_received, rest>>

\* run, after the connection was lost: _connect, self._snapshot_received.clear();
\* the server starts over with a snapshot for every coin subscribed
L4Connect ==
    /\ l4_served # {}
    /\ l4_served' = {}
    /\ l4_received' = {}
    /\ UNCHANGED <<orders, oid_to_cloid, cloid_counter, pc, cur, last, venue, next_oid, ws, now,
                   callers, created, paperVars, bookVars,
                   l4_books, l4_raw, l4_last, l4_msgs, rest>>

NextL4 == HandleL4Message \/ L4Redeliver \/ L4Connect

\* SpecL4: the L4 client's WebSocket thread
SpecL4 == Init /\ [][NextL4]_vars

\* ------------------------------------------------ L4 client: subscriptions
\* Engine.run has started the L4Client thread and calls subscribe(coin, ...) for
\* each configured coin; the L4Client thread connects, serves the socket's
\* callbacks and reconnects. _ws_ready and _queued_subscriptions are read and
\* written by both threads without a lock.

\* after the statement for the coin at l4_caller.i
NextSubscribeCall ==
    IF l4_caller.i < Len(SubCoins)
    THEN [pc |-> "test", i |-> l4_caller.i + 1]
    ELSE [pc |-> "done", i |-> l4_caller.i + 1]

\* ws.send(msg): the message reaches the server only over an open socket;
\* otherwise send raises and _send_subscribe logs the exception
SendSubscribe(coin) == IF l4_link = "open" THEN l4_sent \cup {coin} ELSE l4_sent

\* ws.send(msg), for the server: what it holds subscribed on this socket
ServerSubscribes(coin) == IF l4_link = "open" THEN l4_live \cup {coin} ELSE l4_live

\* subscribe: `if self._ws_ready:`
SubscribeTest ==
    /\ l4_caller.pc = "test"
    /\ l4_caller' = [l4_caller EXCEPT !.pc = IF l4_ws_ready THEN "send" ELSE "queue"]
    /\ UNCHANGED <<l4_ws_ready, l4_queued, l4_link, l4_sock, l4_sent, l4_connects, l4_live>>
    /\ UNCHANGED <<older, engVars, lockVars, notifyVars>>

\* subscribe: `self._send_subscribe(coin)`
SubscribeSend ==
    /\ l4_caller.pc = "send"
    /\ l4_sent' = SendSubscribe(SubCoins[l4_caller.i])
    /\ l4_live' = ServerSubscribes(SubCoins[l4_caller.i])
    /\ l4_caller' = NextSubscribeCall
    /\ UNCHANGED <<l4_ws_ready, l4_queued, l4_link, l4_sock, l4_connects>>
    /\ UNCHANGED <<older, engVars, lockVars, notifyVars>>

\* subscribe: `self._queued_subscriptions.append(coin)`
SubscribeQueue ==
    /\ l4_caller.pc = "queue"
    /\ l4_queued' = Append(l4_queued, SubCoins[l4_caller.i])
    /\ l4_caller' = NextSubscribeCall
    /\ UNCHANGED <<l4_ws_ready, l4_link, l4_sock, l4_sent, l4_connects, l4_live>>
    /\ UNCHANGED <<older, engVars, lockVars, notifyVars>>

\* run / _connect up to run_forever: `self._ws_ready = False`, a new socket
SubscribeConnect ==
    /\ l4_sock.pc = "run"
    /\ l4_connects < MaxConnects
    /\ l4_connects' = l4_connects + 1
    /\ l4_ws_ready' = FALSE
    /\ l4_link' = "connecting"
    /\ l4_live' = {}
    /\ l4_sock' = [pc |-> "forever", i |-> 0]
    /\ UNCHANGED <<l4_queued, l4_caller, l4_sent>>
    /\ UNCHANGED <<older, engVars, lockVars, notifyVars>>

\* the socket opens and run_forever calls _on_open: `self._ws_ready = True`
OnOpen ==
    /\ l4_sock.pc = "forever"
    /\ l4_link = "connecting"
    /\ l4_link' = "open"
    /\ l4_ws_ready' = TRUE
    /\ l4_sock' = [pc |-> "replay", i |-> 1]
    /\ UNCHANGED <<l4_queued, l4_caller, l4_sent, l4_connects, l4_live>>
    /\ UNCHANGED <<older, engVars, lockVars, notifyVars>>

\* _on_open: one round of `for coin in self._queued_subscriptions:`, which
\* walks the live list by index, and the end of the loop
OnOpenReplay ==
    /\ l4_sock.pc = "replay"
    /\ IF l4_sock.i <= Len(l4_queued)
       THEN /\ l4_sent' = SendSubscribe(l4_queued[l4_sock.i])
            /\ l4_live' = ServerSubscribes(l4_queued[l4_sock.i])
            /\ l4_sock' = [l4_sock EXCEPT !.i = @ + 1]
       ELSE /\ l4_sock' = [pc |-> "clear", i |-> 0]
            /\ UNCHANGED <<l4_sent, l4_live>>
    /\ UNCHANGED <<l4_ws_ready, l4_queued, l4_link, l4_caller, l4_connects>>
    /\ UNCHANGED <<older, engVars, lockVars, notifyVars>>

\* _on_open: the clear after the loop; back in run_forever
OnOpenClear ==
    /\ l4_sock.pc = "clear"
    /\ l4_queued' = <<>>
    /\ l4_sock' = [pc |-> "forever", i |-> 0]
    /\ UNCHANGED <<l4_ws_ready, l4_link, l4_caller, l4_sent, l4_connects, l4_live>>
    /\ UNCHANGED <<older, engVars, lockVars, notifyVars>>

\* the connection drops (environment); the last connection modelled stays up
LinkCloses ==
    /\ l4_link = "open"
    /\ l4_connects < MaxConnects
    /\ l4_link' = "closed"
    /\ UNCHANGED <<l4_ws_ready, l4_queued, l4_sock, l4_caller, l4_sent, l4_connects, l4_live>>
    /\ UNCHANGED <<older, engVars, lockVars, notifyVars>>

\* run_forever calls _on_close and returns to run, which reconnects
OnClose ==
    /\ l4_sock.pc = "forever"
    /\ l4_link = "closed"
    /\ l4_ws_ready' = FALSE
    /\ l4_sock' = [pc |-> "run", i |-> 0]
    /\ UNCHANGED <<l4_queued, l4_link, l4_caller, l4_sent, l4_connects, l4_live>>
    /\ UNCHANGED <<older, engVars, lockVars, notifyVars>>

SubscribeCaller == SubscribeTest \/ SubscribeSend \/ SubscribeQueue

SubscribeSocket == SubscribeConnect \/ OnOpen \/ OnOpenReplay \/ OnOpenClear \/ OnClose

NextSubscribe == SubscribeCaller \/ SubscribeSocket \/ LinkCloses

\* both threads keep running and a connecting socket opens; nothing makes a
\* connection drop
SpecSubscribe ==
    Init /\ [][NextSubscribe]_vars /\ WF_vars(SubscribeCaller) /\ WF_vars(SubscribeSocket)

\* ---------------------------------------------------- L4 client: callbacks
\* subscribe(coin, callback) before the socket is ready: the callback is
\* appended to the coin's list, then the coin is sent or queued
L4Register ==
    /\ \E coin \in L4Coins :
         /\ Len(l4_callbacks[coin]) < MaxCallbacks
         /\ l4_callbacks' = [l4_callbacks EXCEPT ![coin] = Append(@, Len(@) + 1)]
         /\ IF l4_ws_ready
            THEN /\ l4_sent' = SendSubscribe(coin)
                 /\ l4_live' = ServerSubscribes(coin)
                 /\ UNCHANGED l4_queued
            ELSE /\ l4_queued' = Append(l4_queued, coin)
                 /\ UNCHANGED <<l4_sent, l4_live>>
    /\ UNCHANGED <<l4_ws_ready, l4_link, l4_sock, l4_caller, l4_connects, l4_notified>>
    /\ UNCHANGED <<older, engVars, lockVars>>

\* _handle_l4_message(msg) with callbacks registered: nothing for a message
\* without a coin; otherwise the callbacks of the coin, each of which may
\* raise, and then the snapshot or the diff
HandleL4Notify ==
    /\ l4_msgs < MaxL4Messages
    /\ l4_msgs' = l4_msgs + 1
    /\ \E coin \in L4Coins \cup {""} :
       \E data \in IF coin \in l4_served THEN L4DiffData ELSE L4NotifySnapshotData :
         /\ IF coin = ""
            THEN l4_notified' = <<>>
            ELSE \E raises \in [DOMAIN l4_callbacks[coin] -> BOOLEAN] :
                   l4_notified' = NotifyCallbacks(l4_callbacks[coin], data,
                                                  RawBookOf(l4_raw, coin), raises, 1)
         /\ HandleL4(coin, data, l4_msgs + 1, FALSE)
         /\ l4_served' = IF coin = "" THEN l4_served ELSE l4_served \cup {coin}
    /\ UNCHANGED <<orders, oid_to_cloid, cloid_counter, pc, cur, last, venue, next_oid, ws, now,
                   callers, created, paperVars, bookVars, subVars, engVars, lockVars,
                   l4_callbacks>>

NextL4Notify == L4Register \/ HandleL4Notify

\* SpecL4Notify: the L4 client's WebSocket thread with callbacks registered
SpecL4Notify == Init /\ [][NextL4Notify]_vars

\* ------------------------------------------------------------ the engine
\* Engine._tick_loop, _tick, _execute_decision and shutdown in paper mode: one
\* thread, so each call on the order manager is one step. stop() comes from the
\* signal handler or from another thread.

\* what the engine's steps leave alone besides the order manager
engineAside == <<callers, created, p_call, p_ret, bookVars, l4Vars, subVars, lockVars,
                 notifyVars>>

\* `while self._running.is_set():` and `tick_start = time.monotonic()`; when
\* the flag is clear the loop ends and run's finally clause calls shutdown
EngineLoopTest ==
    /\ e_pc = "loop"
    /\ IF e_running
       THEN /\ e_ticks < MaxTicks
            /\ e_ticks' = e_ticks + 1
            /\ e_tick_start' = e_clock
            /\ e_pc' = "check"
            /\ e_calls' = <<>>
            /\ e_decision' = NotAsked
       ELSE /\ e_pc' = "on_stop"
            /\ UNCHANGED <<e_ticks, e_tick_start, e_calls, e_decision>>
    /\ UNCHANGED <<e_i, e_running, e_clock, e_deadline, e_raised, e_shut>>
    /\ UNCHANGED <<omVars, paper, engineAside>>

\* _tick: check_resting_orders(books), then order_manager.on_fill and
\* strategy.on_fill for each fill; strategy.on_fill may raise at the k-th fill
EnginePaperCheck ==
    /\ e_pc = "check"
    /\ \E bks \in BookMaps :
         LET r == CheckRestingOrders(paper, bks)
         IN /\ paper' = r.paper
            /\ \E k \in 0..Len(r.fills) :
                 IF k = 0
                 THEN /\ orders' = FillsApply(orders, oid_to_cloid, r.fills, now, 1)
                      /\ e_pc' = "coin"
                      /\ UNCHANGED e_raised
                 ELSE /\ orders' = FillsApply(orders, oid_to_cloid, SubSeq(r.fills, 1, k),
                                              now, 1)
                      /\ e_pc' = AfterRaise
                      /\ e_raised' = e_ticks
    /\ e_i' = 1
    /\ UNCHANGED <<e_running, e_clock, e_tick_start, e_deadline, e_ticks, e_decision,
                   e_calls, e_shut>>
    /\ UNCHANGED <<oid_to_cloid, cloid_counter, pc, cur, last, venue, next_oid, ws, now,
                   engineAside>>

\* after the statements for the coin at e_i
NextCoin == IF e_i < Len(SubCoins) THEN "coin" ELSE "cleanup"

\* _tick: book, open orders and strategy.on_tick for the coin at e_i, which
\* gives None or a decision or raises
EngineOnTick ==
    /\ e_pc = "coin"
    /\ \E d \in {NoDecision, RaisedDecision}
                  \cup DecisionsWithin(MaxPaperOrders - cloid_counter) :
         /\ e_decision' = d
         /\ IF d = RaisedDecision
            THEN /\ e_pc' = AfterRaise
                 /\ e_raised' = e_ticks
                 /\ UNCHANGED e_i
            ELSE /\ UNCHANGED e_raised
                 /\ IF ExecutesDecision(d)
                    THEN e_pc' = "cancel" /\ UNCHANGED e_i
                    ELSE e_pc' = NextCoin /\ e_i' = e_i + 1
    /\ UNCHANGED <<e_running, e_clock, e_tick_start, e_deadline, e_ticks, e_calls, e_shut>>
    /\ UNCHANGED <<omVars, paper, engineAside>>

\* _execute_decision: `if decision.cancel_all_first: cancel_all(decision.coin)`
EngineExecuteCancel ==
    /\ e_pc = "cancel"
    /\ IF e_decision.cancel_all_first
       THEN LET r == EngineCancelAll(orders, paper, e_decision.coin, now)
            IN /\ orders' = r[1]
               /\ paper' = r[2]
               /\ e_calls' = Append(e_calls, [op |-> "cancel_all", coin |-> e_decision.coin])
       ELSE UNCHANGED <<orders, paper, e_calls>>
    /\ e_pc' = "place"
    /\ UNCHANGED <<e_i, e_running, e_clock, e_tick_start, e_deadline, e_ticks, e_decision,
                   e_raised, e_shut>>
    /\ UNCHANGED <<oid_to_cloid, cloid_counter, pc, cur, last, venue, next_oid, ws, now,
                   engineAside>>

\* _execute_decision: `if decision.desired_orders: place_bulk(decision.coin, ...)`;
\* the decision is not used after it
EngineExecutePlace ==
    /\ e_pc = "place"
    /\ IF e_decision.desired # <<>>
       THEN LET r == EnginePlaceBulk(orders, oid_to_cloid, cloid_counter, paper,
                                     e_decision.coin, e_decision.desired, now)
            IN /\ orders' = r[1]
               /\ oid_to_cloid' = r[2]
               /\ cloid_counter' = r[3]
               /\ paper' = r[4]
               /\ e_calls' = Append(e_calls, [op |-> "place_bulk", coin |-> e_decision.coin])
       ELSE UNCHANGED <<orders, oid_to_cloid, cloid_counter, paper, e_calls>>
    /\ e_pc' = NextCoin
    /\ e_i' = e_i + 1
    /\ e_decision' = NotAsked
    /\ UNCHANGED <<e_running, e_clock, e_tick_start, e_deadline, e_ticks, e_raised, e_shut>>
    /\ UNCHANGED <<pc, cur, last, venue, next_oid, ws, now, engineAside>>

\* _tick: cleanup_terminal() with its default age
EngineCleanup ==
    /\ e_pc = "cleanup"
    /\ LET cutoff == now - DefaultMaxAge
           to_remove == {c \in DOMAIN orders :
                           IsTerminal(orders[c]) /\ orders[c].updated_at_ms < cutoff}
       IN /\ orders' = Without(orders, to_remove)
          /\ oid_to_cloid' = Without(oid_to_cloid,
                                     {o \in DOMAIN oid_to_cloid : oid_to_cloid[o] \in to_remove})
    /\ e_pc' = "elapsed"
    /\ UNCHANGED <<e_i, e_running, e_clock, e_tick_start, e_deadline, e_ticks, e_decision,
                   e_calls, e_raised, e_shut>>
    /\ UNCHANGED <<cloid_counter, pc, cur, last, venue, next_oid, ws, now, paper,
                   engineAside>>

\* _tick_loop: elapsed, sleep_time and `if sleep_time > 0:` up to the call of
\* self._running.wait(sleep_time)
EngineElapsed ==
    /\ e_pc = "elapsed"
    /\ LET elapsed == e_clock - e_tick_start
           sleep_time == IF Interval - elapsed > 0 THEN Interval - elapsed ELSE 0
       IN IF sleep_time > 0
          THEN e_pc' = "wait" /\ e_deadline' = e_clock + sleep_time
          ELSE e_pc' = "loop" /\ UNCHANGED e_deadline
    /\ UNCHANGED <<e_i, e_running, e_clock, e_tick_start, e_ticks, e_decision, e_calls,
                   e_raised, e_shut>>
    /\ UNCHANGED <<omVars, paper, engineAside>>

\* Event.wait(timeout) returns as soon as the flag is set, and otherwise when
\* the timeout has passed
WaitReturns(flag, clock, deadline) == flag \/ clock >= deadline

\* _tick_loop: self._running.wait(sleep_time) returns
EngineWait ==
    /\ e_pc = "wait"
    /\ WaitReturns(e_running, e_clock, e_deadline)
    /\ e_pc' = "loop"
    /\ UNCHANGED <<e_i, e_running, e_clock, e_tick_start, e_deadline, e_ticks, e_decision,
                   e_calls, e_raised, e_shut>>
    /\ UNCHANGED <<omVars, paper, engineAside>>

\* time passes
EngineClock ==
    /\ e_clock < MaxClock
    /\ e_pc \notin {"exited", "failed"}
    /\ e_clock' = e_clock + 1
    /\ UNCHANGED <<e_pc, e_i, e_running, e_tick_start, e_deadline, e_ticks, e_decision,
                   e_calls, e_raised, e_shut>>
    /\ UNCHANGED <<omVars, paper, engineAside>>

\* Engine.stop(), from the signal handler or another thread
EngineStop ==
    /\ e_running
    /\ e_running' = FALSE
    /\ UNCHANGED <<e_pc, e_i, e_clock, e_tick_start, e_deadline, e_ticks, e_decision,
                   e_calls, e_raised, e_shut>>
    /\ UNCHANGED <<omVars, paper, engineAside>>

\* shutdown: `self.strategy.on_stop()`, outside any try; when it raises the
\* exception leaves shutdown and run
ShutdownOnStop ==
    /\ e_pc = "on_stop"
    /\ e_shut' = Append(e_shut, [step |-> "on_stop", coin |-> ""])
    /\ \E raises \in BOOLEAN :
         e_pc' = IF raises THEN "failed" ELSE "cancel_all"
    /\ e_i' = 1
    /\ UNCHANGED <<e_running, e_clock, e_tick_start, e_deadline, e_ticks, e_decision,
                   e_calls, e_raised>>
    /\ UNCHANGED <<omVars, paper, engineAside>>

\* shutdown: cancel_all(coin) for the coin at e_i, inside try / except; the
\* backend call may raise before anything is marked
ShutdownCancelAll ==
    /\ e_pc = "cancel_all"
    /\ e_shut' = Append(e_shut, [step |-> "cancel_all", coin |-> SubCoins[e_i]])
    /\ \E raises \in BOOLEAN :
         IF raises
         THEN UNCHANGED <<orders, paper>>
         ELSE LET r == EngineCancelAll(orders, paper, SubCoins[e_i], now)
              IN orders' = r[1] /\ paper' = r[2]
    /\ e_pc' = IF e_i < Len(SubCoins) THEN "cancel_all" ELSE "l4_stop"
    /\ e_i' = e_i + 1
    /\ UNCHANGED <<e_running, e_clock, e_tick_start, e_deadline, e_ticks, e_decision,
                   e_calls, e_raised>>
    /\ UNCHANGED <<oid_to_cloid, cloid_counter, pc, cur, last, venue, next_oid, ws, now,
                   engineAside>>

\* shutdown: l4_client.stop(), recorder.close() and gateway.shutdown(), each
\* inside its own try / except
ShutdownClose ==
    /\ e_pc \in {"l4_stop", "recorder_close", "gateway_shutdown"}
    /\ e_shut' = Append(e_shut, [step |-> e_pc, coin |-> ""])
    /\ e_pc' = CASE e_pc = "l4_stop" -> "recorder_close"
                 [] e_pc = "recorder_close" -> "gateway_shutdown"
                 [] OTHER -> "exited"
    /\ UNCHANGED <<e_i, e_running, e_clock, e_tick_start, e_deadline, e_ticks, e_decision,
                   e_calls, e_raised>>
    /\ UNCHANGED <<omVars, paper, engineAside>>

NextEngine ==
    \/ EngineLoopTest
    \/ EnginePaperCheck
    \/ EngineOnTick
    \/ EngineExecuteCancel
    \/ EngineExecutePlace
    \/ EngineCleanup
    \/ EngineElapsed
    \/ EngineWait
    \/ EngineClock
    \/ EngineStop
    \/ ShutdownOnStop
    \/ ShutdownCancelAll
    \/ ShutdownClose

\* SpecEngine: the engine thread from the start of the tick loop to the end of
\* shutdown
SpecEngine == Init /\ [][NextEngine]_vars

\* ------------------------------------------------------------ the locks
lockAside == <<older, subVars, engVars, notifyVars>>

\* thread t begins a call
LockBegin(t) ==
    /\ lk_thr[t].prog = <<>>
    /\ \E prog \in ProgramsOf(t) : lk_thr' = [lk_thr EXCEPT ![t].prog = prog, ![t].i = 1]
    /\ UNCHANGED <<lk_om, lk_paper, lockAside>>

\* `with self._lock:` entered: the thread waits until the mutex is free
LockAcquire(t) ==
    /\ \/ /\ LockAt(t) = "acq_om"
          /\ lk_om = ""
          /\ lk_om' = t
          /\ UNCHANGED lk_paper
       \/ /\ LockAt(t) = "acq_paper"
          /\ lk_paper = ""
          /\ lk_paper' = t
          /\ UNCHANGED lk_om
    /\ lk_thr' = LockAdvance(t)
    /\ UNCHANGED lockAside

\* the `with` block left
LockRelease(t) ==
    /\ \/ /\ LockAt(t) = "rel_om"
          /\ lk_om' = ""
          /\ UNCHANGED lk_paper
       \/ /\ LockAt(t) = "rel_paper"
          /\ lk_paper' = ""
          /\ UNCHANGED lk_om
    /\ lk_thr' = LockAdvance(t)
    /\ UNCHANGED lockAside

\* a backend call, a REST fetch or a strategy callback begins
LockEnter(t) ==
    /\ LockAt(t) \in {"enter_backend", "enter_rest", "enter_strategy"}
    /\ lk_thr' = [LockAdvance(t) EXCEPT
                    ![t].backend = (LockAt(t) = "enter_backend") \/ @,
                    ![t].rest_fetch = (LockAt(t) = "enter_rest") \/ @,
                    ![t].strategy = (LockAt(t) = "enter_strategy") \/ @]
    /\ UNCHANGED <<lk_om, lk_paper, lockAside>>

\* it returns or raises
LockLeave(t) ==
    /\ LockAt(t) \in {"leave_backend", "leave_rest", "leave_strategy"}
    /\ lk_thr' = [LockAdvance(t) EXCEPT
                    ![t].backend = (LockAt(t) # "leave_backend") /\ @,
                    ![t].rest_fetch = (LockAt(t) # "leave_rest") /\ @,
                    ![t].strategy = (LockAt(t) # "leave_strategy") /\ @]
    /\ UNCHANGED <<lk_om, lk_paper, lockAside>>

\* the call is over
LockEnd(t) ==
    /\ lk_thr[t].prog # <<>>
    /\ LockAt(t) = "end"
    /\ lk_thr' = [lk_thr EXCEPT ![t] = IdleLockThread]
    /\ UNCHANGED <<lk_om, lk_paper, lockAside>>

NextLocks ==
    \E t \in LockThreads :
        \/ LockBegin(t)
        \/ LockAcquire(t)
        \/ LockRelease(t)
        \/ LockEnter(t)
        \/ LockLeave(t)
        \/ LockEnd(t)

\* SpecLocks: the tick thread and the websocket thread in the calls that take
\* the order manager's or the paper backend's mutex
SpecLocks == Init /\ [][NextLocks]_vars

\* ------------------------------------------------------------------ Spec
\* Spec: placement, cancellation and the WebSocket intake within one reading
\* of the local clock. SpecClock adds the passing of time and cleanup_terminal,
\* the one reader of updated_at_ms.
Next ==
    \/ PlaceOrder
    \/ PlaceBulk
    \/ BackendPlace
    \/ ProcessOrderResponse
    \/ PlaceOrderFailed
    \/ ProcessBulkResponse
    \/ PlaceBulkFailed
    \/ CancelAllCall
    \/ CancelAllMark
    \/ OnFill
    \/ OnOrderUpdate
    \/ VenueFill
    \/ VenueReject

Spec == Init /\ [][Next]_vars

NextClock ==
    \/ Next
    \/ CleanupTerminal
    \/ Tick

SpecClock == Init /\ [][NextClock]_vars

TypeOK ==
    /\ cloid_counter \in 0..MaxOrders
    /\ DOMAIN orders \subseteq 1..cloid_counter
    /\ \A c \in DOMAIN orders :
         orders[c].status \in {"pending", "open", "partial", "filled", "cancelled", "rejected"}
    /\ pc \in {"idle", "place_call", "place_resp", "cancel_mark"}
    /\ Len(ws) <= MaxQueue
    /\ now \in 0..MaxTime


\* ---------------------------------------------------------------- claims
Tracked == DOMAIN orders

\* orders tracked before and after a step
Kept == (DOMAIN orders) \cap (DOMAIN orders')

\* the step is on_fill / on_order_update handling the message at the head of the socket
FillStep == ws # <<>> /\ Head(ws).type = "fill" /\ ws' = Tail(ws)

UpdateStep == ws # <<>> /\ Head(ws).type = "updates" /\ ws' = Tail(ws)

\* the step ends place_order / place_bulk: response applied (or the except
\* branch run) and the call returned
PlaceReturnStep == pc = "place_resp" /\ pc' = "idle"

\* a userFills message for venue order o is still on its way
FillInFlight(o) == \E i \in DOMAIN ws : ws[i].type = "fill" /\ ws[i].oid = o

\* C1: every tracked order satisfies 0 <= filled_size <= size.
\* Stated as the claim has it; the code breaks it.
C1_FilledWithinSize ==
    \A c \in Tracked : 0 <= orders[c].filled_size /\ orders[c].filled_size <= orders[c].size

\* C2: once an order's status is Filled, Cancelled or Rejected, no later step
\* changes its status or its filled_size.
\* Stated as the claim has it; the code breaks it.
C2_TerminalAbsorbing ==
    [][\A c \in Kept :
          IsTerminal(orders[c]) =>
              /\ orders'[c].status = orders[c].status
              /\ orders'[c].filled_size = orders[c].filled_size]_vars

\* the permitted status changes of the data model
PermittedEdges ==
    {<<"pending", "open">>, <<"pending", "filled">>, <<"pending", "rejected">>,
     <<"open", "partial">>, <<"open", "filled">>, <<"open", "cancelled">>,
     <<"open", "rejected">>,
     <<"partial", "partial">>, <<"partial", "filled">>, <<"partial", "cancelled">>}

\* C3: every status change of an order is an edge of the permitted graph.
\* Stated as the claim has it; the code breaks it.
C3_PermittedTransitions ==
    [][\A c \in Kept :
          orders'[c].status # orders[c].status =>
              <<orders[c].status, orders'[c].status>> \in PermittedEdges]_vars

\* C4: after cancel_all(s) has returned, no tracked order for s is non-terminal,
\* whatever the WebSocket thread does meanwhile.
\* Stated as the claim has it; the code breaks it.
C4_CancelAllLeavesNoneOpen ==
    (pc = "idle" /\ last.op = "cancel_all" /\ ~last.raised) =>
        \A c \in Tracked : orders[c].coin = last.coin => IsTerminal(orders[c])

\* the fill at the head of the socket is for an order of the placement call
\* the engine thread is in: inserted, response not applied yet
FillBeforeResponse(c) ==
    /\ FillStep
    /\ pc \in {"place_call", "place_resp"}
    /\ c \in Range(cur.cloids)
    /\ c \in Tracked
    /\ Head(ws).oid \in DOMAIN venue
    /\ venue[Head(ws).oid].cloid = c

\* C5 as the claim has it: a fill that arrives between the insert and the
\* application of the placement response is added to the order's filled_size.
C5_FillBeforeResponseCorrelated ==
    [][\A c \in Tracked :
          FillBeforeResponse(c) =>
              orders'[c].filled_size = orders[c].filled_size + Head(ws).size]_vars

\* C5 amended: a fill that arrives between the insert and the application of
\* the placement response is dropped; it changes no tracked order.
C5_FillBeforeResponseDropped ==
    [][\A c \in Tracked : FillBeforeResponse(c) => orders' = orders]_vars

\* C5 witness: the venue filled an order of the call in progress, the fill has
\* been handled, and the order still shows nothing filled
C5_Witness ==
    \E o \in DOMAIN venue :
        /\ pc = "place_resp"
        /\ venue[o].cloid \in Range(cur.cloids)
        /\ venue[o].cloid \in Tracked
        /\ venue[o].filled > 0
        /\ ~FillInFlight(o)
        /\ orders[venue[o].cloid].filled_size = 0
        /\ orders[venue[o].cloid].status = "pending"

\* C6: once the placement response has been applied and every fill the venue
\* reported for the order has been handled, filled_size is the sum of the
\* venue's fills and a venue-filled order is Filled.
\* Stated as the claim has it; the code breaks it.
C6_ConvergesToVenue ==
    \A o \in DOMAIN venue :
        LET c == venue[o].cloid
        IN (c \in Tracked /\ orders[c].oid = o /\ ~FillInFlight(o)) =>
               /\ orders[c].filled_size = venue[o].filled
               /\ (venue[o].state = "filled" => orders[c].status = "filled")


\* positions of the call in progress that have both an order and a status
Answered == 1..Min(Len(cur.cloids), Len(cur.statuses))

\* C7: applying a placement response sets each order from its status element:
\* resting gives the venue id, Open and a reverse-index entry; filled gives the
\* venue id, Filled, filled_size = size and a reverse-index entry; error gives
\* Rejected and leaves the venue id unset.
C7_ResponseApplied ==
    [][(PlaceReturnStep /\ ~cur.raised) =>
          \A i \in Answered :
              LET c == cur.cloids[i]
                  st == cur.statuses[i]
              IN /\ c \in DOMAIN orders'
                 /\ st.kind = "resting" =>
                        /\ orders'[c].oid = st.oid
                        /\ orders'[c].status = "open"
                        /\ st.oid \in DOMAIN oid_to_cloid'
                        /\ oid_to_cloid'[st.oid] = c
                 /\ st.kind = "filled" =>
                        /\ orders'[c].oid = st.oid
                        /\ orders'[c].status = "filled"
                        /\ orders'[c].filled_size = orders'[c].size
                        /\ st.oid \in DOMAIN oid_to_cloid'
                        /\ oid_to_cloid'[st.oid] = c
                 /\ st.kind = "error" =>
                        /\ orders'[c].status = "rejected"
                        /\ orders'[c].oid = NoOid]_vars

\* C7 witness: place_bulk has returned with one order resting and one filled
\* on placement, both indexed by their venue ids
C7_Witness ==
    /\ pc = "idle"
    /\ last.op = "place_bulk"
    /\ \E c1, c2 \in Tracked :
         /\ orders[c1].status = "open" /\ orders[c1].oid # NoOid
         /\ orders[c1].oid \in DOMAIN oid_to_cloid /\ oid_to_cloid[orders[c1].oid] = c1
         /\ orders[c2].status = "filled" /\ orders[c2].oid # NoOid
         /\ orders[c2].filled_size = orders[c2].size
         /\ orders[c2].oid \in DOMAIN oid_to_cloid /\ oid_to_cloid[orders[c2].oid] = c2

\* C8: when the backend raises during place_order or place_bulk, or answers
\* with an error status, the call returns normally and every order concerned
\* is tracked as Rejected.
C8_FailureMeansRejected ==
    [][PlaceReturnStep =>
          /\ ~last'.raised
          /\ cur.raised =>
                 \A c \in Range(cur.cloids) :
                     c \in DOMAIN orders' /\ orders'[c].status = "rejected"
          /\ ~cur.raised =>
                 \A i \in Answered :
                     cur.statuses[i].kind = "error" =>
                         /\ cur.cloids[i] \in DOMAIN orders'
                         /\ orders'[cur.cloids[i]].status = "rejected"]_vars

\* C8 witness: a placement has returned normally, the venue holds nothing of
\* it, and its orders are tracked as Rejected without a venue id
C8_Witness ==
    /\ pc = "idle"
    /\ last.op \in {"place_order", "place_bulk"}
    /\ ~last.raised
    /\ venue = <<>>
    /\ Tracked # {}
    /\ \A c \in Tracked : orders[c].status = "rejected" /\ orders[c].oid = NoOid

\* C9: for a tracked non-terminal order found by its venue id, on_fill adds
\* fill.size to filled_size; below size the order is PartiallyFilled with
\* remaining_size = size - filled_size, and reaching size makes it Filled.
C9_FillAccumulates ==
    [][FillStep =>
          \A c \in Tracked :
              (/\ Head(ws).oid \in DOMAIN oid_to_cloid
               /\ oid_to_cloid[Head(ws).oid] = c
               /\ ~IsTerminal(orders[c])) =>
                  /\ orders'[c].filled_size = orders[c].filled_size + Head(ws).size
                  /\ orders'[c].filled_size < orders[c].size =>
                         /\ orders'[c].status = "partial"
                         /\ RemainingSize(orders'[c]) = orders[c].size - orders'[c].filled_size
                  /\ orders'[c].filled_size = orders[c].size =>
                         orders'[c].status = "filled"]_vars

\* C9 witness: a resting order of size 2 has taken one fill of 1
C9_Witness ==
    \E c \in Tracked :
        /\ orders[c].oid # NoOid
        /\ orders[c].size = 2
        /\ orders[c].filled_size = 1
        /\ orders[c].status = "partial"
        /\ RemainingSize(orders[c]) = 1

\* C10: on_order_update sets a tracked order to Cancelled, Filled or Rejected
\* for the tags canceled, filled, rejected, and an update with any other tag
\* leaves status and filled_size as they were.
C10_UpdateByTag ==
    [][UpdateStep =>
          \A i \in DOMAIN Head(ws).list :
              LET u == Head(ws).list[i]
              IN (u.oid \in DOMAIN oid_to_cloid /\ oid_to_cloid[u.oid] \in Tracked) =>
                     LET c == oid_to_cloid[u.oid]
                     IN /\ u.tag = "canceled" => orders'[c].status = "cancelled"
                        /\ u.tag = "filled" => orders'[c].status = "filled"
                        /\ u.tag = "rejected" => orders'[c].status = "rejected"
                        /\ u.tag \notin {"canceled", "filled", "rejected"} =>
                               /\ orders'[c].status = orders[c].status
                               /\ orders'[c].filled_size = orders[c].filled_size]_vars

\* C10 witness: an order that had rested (it has a venue id) is Rejected, which
\* only a rejected update does, while another update is still to be handled
C10_Witness ==
    \E c \in Tracked :
        /\ orders[c].oid # NoOid
        /\ orders[c].status = "rejected"
        /\ orders[c].oid \in DOMAIN venue
        /\ venue[orders[c].oid].state = "rejected"

\* the step is cleanup_terminal(a), called and returned
CleanupStep(a) ==
    /\ pc = "idle" /\ pc' = "idle"
    /\ last'.op = "cleanup_terminal"
    /\ last'.max_age = a
    /\ <<cloid_counter, cur, venue, next_oid, ws, now>>' =
           <<cloid_counter, cur, venue, next_oid, ws, now>>

\* C11: cleanup_terminal(0) removes every terminal order from the tracking
\* map, whatever its updated_at_ms is relative to the clock reading.
\* Stated as the claim has it; the code breaks it.
C11_CleanupZeroDropsAllTerminal ==
    [][CleanupStep(0) => \A c \in DOMAIN orders' : ~IsTerminal(orders'[c])]_vars

C14_VenueIdKept ==
    [][\A c \in Kept : orders[c].oid # NoOid => orders'[c].oid = orders[c].oid]_vars

\* C14 witness: an order that got its venue id from the placement response
\* has since been partly filled by on_fill and cancelled by cancel_all, and
\* still carries the id the venue gave it
C14_Witness ==
    \E c \in Tracked :
        /\ orders[c].oid # NoOid
        /\ orders[c].oid \in DOMAIN venue
        /\ venue[orders[c].oid].cloid = c
        /\ orders[c].filled_size = 1
        /\ orders[c].size = 2
        /\ orders[c].status = "cancelled"
        /\ last.op = "cancel_all"

\* C13: every order created by place_order or place_bulk gets a client id
\* different from that of every other order created, under any interleaving
\* of the callers.
\* Stated as the claim has it; the code breaks it.
C13_ClientIdsDistinct ==
    \A i, j \in DOMAIN created : i # j => created[i] # created[j]

\* the steps of place_bulk over the paper backend
BulkInsertStep == pc = "idle" /\ pc' = "place_call" /\ cur'.op = "place_bulk"

BulkBackendStep == pc = "place_call" /\ pc' = "place_resp" /\ cur.op = "place_bulk"

BulkReturnStep == pc = "place_resp" /\ pc' = "idle" /\ cur.op = "place_bulk"

\* status st is what the paper backend answers to request req: resting with the
\* order in the open map under the oid, filled with a fill recorded for the
\* oid, or the error of an Ioc order
AnswersRequest(p, st, req) ==
    \/ /\ st.kind = "resting"
       /\ st.oid \in DOMAIN p.open_orders
       /\ LET o == p.open_orders[st.oid]
          IN /\ o.coin = req.coin /\ o.is_buy = req.is_buy
             /\ o.sz = req.sz /\ o.limit_px = req.limit_px
    \/ /\ st.kind = "filled"
       /\ \E k \in DOMAIN p.fills :
             /\ p.fills[k].oid = st.oid
             /\ p.fills[k].coin = req.coin
             /\ p.fills[k].side = (IF req.is_buy THEN "B" ELSE "A")
             /\ p.fills[k].sz = req.sz
    \/ /\ st.kind = "error"
       /\ st.oid = NoOid
       /\ TifOf(req.order_type) = "Ioc"

\* C15: place_bulk returns one order per desired order, in request order, the
\* i-th taking its venue id and status from the i-th element of statuses; the
\* paper backend's place_bulk_orders returns one status per request, in
\* request order, each one of resting, filled or error.
C15_BulkAligned ==
    [][/\ BulkInsertStep =>
             /\ Len(cur'.cloids) = Len(p_call'.reqs)
             /\ \A i \in DOMAIN cur'.cloids :
                    /\ cur'.cloids[i] \in DOMAIN orders'
                    /\ orders'[cur'.cloids[i]].size = p_call'.reqs[i].sz
                    /\ orders'[cur'.cloids[i]].coin = p_call'.reqs[i].coin
                    /\ \A j \in DOMAIN cur'.cloids : i # j => cur'.cloids[i] # cur'.cloids[j]
       /\ BulkBackendStep =>
             /\ Len(cur'.statuses) = Len(p_call.reqs)
             /\ \A i \in DOMAIN cur'.statuses :
                    /\ cur'.statuses[i].kind \in {"resting", "filled", "error"}
                    /\ AnswersRequest(paper', cur'.statuses[i], p_call.reqs[i])
                    /\ cur'.statuses[i].kind # "error" =>
                           cur'.statuses[i].oid = paper.next_oid + i - 1
       /\ BulkReturnStep =>
             /\ last'.cloids = cur.cloids
             /\ \A i \in DOMAIN cur.cloids :
                    LET o == orders'[cur.cloids[i]]
                        st == cur.statuses[i]
                    IN /\ i \in DOMAIN cur.statuses
                       /\ st.kind = "resting" => o.oid = st.oid /\ o.status = "open"
                       /\ st.kind = "filled" => o.oid = st.oid /\ o.status = "filled"
                       /\ st.kind = "error" => o.oid = NoOid /\ o.status = "rejected"]_vars

\* C15 witness: place_bulk of two orders has returned; the first, an Ioc order
\* the book did not fill, is Rejected, and the second rests under the second
\* venue id of the call
C15_Witness ==
    /\ pc = "idle"
    /\ last.op = "place_bulk"
    /\ Len(last.cloids) = 2
    /\ orders[last.cloids[1]].status = "rejected"
    /\ orders[last.cloids[1]].oid = NoOid
    /\ orders[last.cloids[2]].status = "open"
    /\ orders[last.cloids[2]].oid = 2
    /\ 2 \in DOMAIN paper.open_orders
    /\ paper.fills = <<>>

\* the best price of the side opposite to an order: the lowest ask for a buy,
\* the highest bid for a sell; 0 when that side is empty
BestOpposite(is_buy, book) ==
    LET side == IF is_buy THEN Range(book.asks) ELSE Range(book.bids)
    IN IF side = {} THEN 0
       ELSE IF is_buy THEN CHOOSE x \in side : \A y \in side : x <= y
       ELSE CHOOSE x \in side : \A y \in side : x >= y

\* the best opposite price crosses the limit
Crosses(is_buy, limit_px, book) ==
    /\ BestOpposite(is_buy, book) # 0
    /\ IF is_buy THEN BestOpposite(is_buy, book) <= limit_px
       ELSE BestOpposite(is_buy, book) >= limit_px

\* signed position size of a coin, 0 when there is no position
SziOf(p, coin) == IF coin \in DOMAIN p.positions THEN p.positions[coin].szi ELSE 0

\* the step is PaperExecution.place_order called by OrderManager.place_order
PaperPlaceOrderStep == pc = "place_call" /\ pc' = "place_resp" /\ p_call.op = "place_order"

\* C16: in the paper backend an Ioc order is never inserted into the open-order
\* map; it returns filled, with one fill recorded at the opposite side's best
\* price and the position updated, when that price crosses the limit, and
\* otherwise the error status with no fill and no position change; an order
\* with any other time-in-force is inserted into the open-order map and
\* returns resting with its fresh venue id.
C16_IocNeverRests ==
    [][PaperPlaceOrderStep =>
          LET req == p_call.reqs[1]
              snap == p_call.snaps[1]
              st == cur'.statuses[1]
              oid == paper.next_oid
              delta == IF req.is_buy THEN req.sz ELSE -req.sz
          IN /\ Len(cur'.statuses) = 1
             /\ oid \notin DOMAIN paper.open_orders
             /\ \A k \in DOMAIN paper.fills : paper.fills[k].oid # oid
             /\ TifOf(req.order_type) = "Ioc" =>
                    /\ paper'.open_orders = paper.open_orders
                    /\ (~snap.raised /\ Crosses(req.is_buy, req.limit_px, snap.book)) =>
                           /\ st = [kind |-> "filled", oid |-> oid]
                           /\ paper'.fills =
                                  Append(paper.fills,
                                         [coin |-> req.coin, oid |-> oid,
                                          side |-> IF req.is_buy THEN "B" ELSE "A",
                                          px |-> BestOpposite(req.is_buy, snap.book),
                                          sz |-> req.sz])
                           /\ SziOf(paper', req.coin) = SziOf(paper, req.coin) + delta
                    /\ ~(~snap.raised /\ Crosses(req.is_buy, req.limit_px, snap.book)) =>
                           /\ st.kind = "error"
                           /\ paper'.fills = paper.fills
                           /\ paper'.positions = paper.positions
                           /\ paper'.balance_usd = paper.balance_usd
             /\ TifOf(req.order_type) # "Ioc" =>
                    /\ st = [kind |-> "resting", oid |-> oid]
                    /\ DOMAIN paper'.open_orders = (DOMAIN paper.open_orders) \cup {oid}
                    /\ paper'.open_orders[oid].coin = req.coin
                    /\ paper'.open_orders[oid].is_buy = req.is_buy
                    /\ paper'.open_orders[oid].sz = req.sz
                    /\ paper'.open_orders[oid].limit_px = req.limit_px
                    /\ \A o \in DOMAIN paper.open_orders :
                           paper'.open_orders[o] = paper.open_orders[o]
                    /\ paper'.fills = paper.fills
                    /\ paper'.positions = paper.positions]_vars

\* C16 witness: an Ioc sell placed while a buy rests has been filled at once:
\* the backend has answered filled, recorded the fill and opened a short
\* position, and the open-order map still holds the resting buy alone
C16_Witness ==
    /\ pc = "place_resp"
    /\ cur.op = "place_order"
    /\ cur.statuses = <<[kind |-> "filled", oid |-> 2]>>
    /\ DOMAIN paper.open_orders = {1}
    /\ Len(paper.fills) = 1
    /\ paper.fills[1].oid = 2
    /\ paper.fills[1].side = "A"
    /\ SziOf(paper, paper.fills[1].coin) = -paper.fills[1].sz

\* the resting orders the books cross
CrossedBy(p, books) ==
    {o \in DOMAIN p.open_orders :
        LET order == p.open_orders[o]
        IN /\ books[order.coin] # NoBook
           /\ Crosses(order.is_buy, order.limit_px, books[order.coin])}

\* C17: check_resting_orders(books) fills exactly the resting orders whose
\* limit is crossed by the opposite side's best price in the supplied book;
\* each yields one returned fill at that price for its full size, leaves the
\* open-order map and has its fill appended to the fill list; every other
\* resting order stays in the map unchanged.
C17_CheckRestingFillsCrossed ==
    pc = "idle" =>
        \A books \in BookMaps :
            LET r == CheckRestingOrders(paper, books)
                crossed == CrossedBy(paper, books)
            IN /\ Len(r.fills) = Cardinality(crossed)
               /\ {r.fills[k].oid : k \in DOMAIN r.fills} = crossed
               /\ \A k \in DOMAIN r.fills :
                      LET order == paper.open_orders[r.fills[k].oid]
                      IN /\ r.fills[k].px = BestOpposite(order.is_buy, books[order.coin])
                         /\ r.fills[k].sz = order.sz
                         /\ r.fills[k].coin = order.coin
                         /\ r.fills[k].side = (IF order.is_buy THEN "B" ELSE "A")
               /\ DOMAIN r.paper.open_orders = (DOMAIN paper.open_orders) \ crossed
               /\ \A o \in DOMAIN r.paper.open_orders :
                      r.paper.open_orders[o] = paper.open_orders[o]
               /\ r.paper.fills = paper.fills \o r.fills

\* C17 witness: check_resting_orders has returned one fill, for the first of
\* two resting orders, which the order manager now holds as Filled; the
\* second still rests
C17_Witness ==
    /\ pc = "idle"
    /\ Len(p_ret) = 1
    /\ p_ret[1].oid = 1
    /\ paper.fills = p_ret
    /\ DOMAIN paper.open_orders = {2}
    /\ 1 \in DOMAIN oid_to_cloid
    /\ orders[oid_to_cloid[1]].status = "filled"
    /\ orders[oid_to_cloid[2]].status = "open"

\* the step records one fill
OneFillStep == Len(paper'.fills) = Len(paper.fills) + 1

BookGetStep == got' # got /\ got'.op = "get"

\* the step in which an update writes its snapshot
BookWriteStep(w) == writers[w].pc = "write" /\ writers'[w].pc = "idle"

\* C19: a get returns nothing for a symbol no update has written, and
\* otherwise exactly the snapshot (its own coin, timestamp and both sides)
\* that the most recently completed update for that symbol built; the write
\* of an update for one symbol leaves what get returns for every other
\* symbol as it was.
C19_GetReturnsLastCompleted ==
    [][/\ BookGetStep =>
            IF got'.coin \in DOMAIN completed
            THEN /\ completed[got'.coin].coin = got'.coin
                 /\ got'.value.coin = got'.coin
                 /\ got'.value.timestamp_ms = completed[got'.coin].time
                 /\ Len(got'.value.bids) = Len(completed[got'.coin].levels[1])
                 /\ Len(got'.value.asks) = Len(completed[got'.coin].levels[2])
                 /\ \A i \in DOMAIN got'.value.bids :
                      /\ got'.value.bids[i].price = completed[got'.coin].levels[1][i].px
                      /\ got'.value.bids[i].size = completed[got'.coin].levels[1][i].sz
                 /\ \A i \in DOMAIN got'.value.asks :
                      /\ got'.value.asks[i].price = completed[got'.coin].levels[2][i].px
                      /\ got'.value.asks[i].size = completed[got'.coin].levels[2][i].sz
            ELSE got'.value = NoSnapshot
       /\ \A w \in Writers : BookWriteStep(w) =>
            \A c \in Coins \ {writers[w].snapshot.coin} :
                StoreGet(book_store', c) = StoreGet(book_store, c)]_vars

\* a get returned the snapshot of the later of two completed updates for its
\* symbol while a snapshot for the other symbol is stored too
C19_Witness ==
    /\ got.op = "get"
    /\ got.coin \in DOMAIN completed
    /\ got.value.timestamp_ms = completed[got.coin].time
    /\ got.value.timestamp_ms = MaxUpdates
    /\ DOMAIN book_store = Coins
    /\ got.value.bids = <<>>
    /\ got.value.asks # <<>>

\* a diff message was applied to the raw book of its coin
L4DiffStep ==
    /\ l4_msgs' = l4_msgs + 1
    /\ l4_last'.coin \in l4_received
    /\ l4_last'.coin \in DOMAIN l4_raw

\* the claim about one diff entry, for the side before and after it
L4EntryApplied(before, after, diff) ==
    LET px == diff.limitPx
        old == IF px \in DOMAIN before THEN before[px] ELSE <<>>
        new == IF px \in DOMAIN after THEN after[px] ELSE <<>>
        mine == {i \in DOMAIN new : new[i].oid = diff.oid}
    IN  /\ diff.sz = 0 => mine = {}
        /\ diff.sz # 0 =>
              /\ Cardinality(mine) = 1
              /\ \A i \in mine : new[i].size = diff.sz /\ new[i].user = diff.user
        /\ SelectSeq(new, LAMBDA o : o.oid # diff.oid)
             = SelectSeq(old, LAMBDA o : o.oid # diff.oid)

\* the claim for every entry of one side's list, taken in the order the
\* handler applies them: entry i acts on the side as the entries before it
\* left it, and the last of them leaves the side the handler stored
L4EntriesApplied(before, after, diffs, side) ==
    /\ ApplySideDiffs(before, diffs, side, 1) = after
    /\ \A i \in DOMAIN diffs :
         L4EntryApplied(ApplySideDiffs(before, SubSeq(diffs, 1, i - 1), side, 1),
                        ApplySideDiffs(before, SubSeq(diffs, 1, i), side, 1),
                        diffs[i])

\* C20: after a diff entry with sz = 0 for (oid, px) no order with that oid
\* stands at px on that side; after one with sz # 0 exactly one does, with
\* the entry's size and owner; the other orders at px are kept, in order.
C20_DiffEntryApplied ==
    [][L4DiffStep =>
         LET coin == l4_last'.coin
         IN  /\ L4EntriesApplied(l4_raw[coin].bids, l4_raw'[coin].bids,
                                 l4_last'.bidDiffs, "B")
             /\ L4EntriesApplied(l4_raw[coin].asks, l4_raw'[coin].asks,
                                 l4_last'.askDiffs, "A")
             /\ Len(l4_last'.bidDiffs) = 1 =>
                  L4EntryApplied(l4_raw[coin].bids, l4_raw'[coin].bids, l4_last'.bidDiffs[1])
             /\ Len(l4_last'.askDiffs) = 1 =>
                  L4EntryApplied(l4_raw[coin].asks, l4_raw'[coin].asks, l4_last'.askDiffs[1])
    ]_vars

\* one message replaced a bid that stood beside another order at its price,
\* and removed an ask that was there
C20_Witness ==
    /\ l4_last.coin \in DOMAIN l4_raw
    /\ l4_last.hit = {<<"B", 1>>, <<"A", 1>>}
    /\ l4_last.bidDiffs[1].sz # 0
    /\ l4_last.askDiffs[1].sz = 0
    /\ Len(l4_raw[l4_last.coin].bids[l4_last.bidDiffs[1].limitPx]) = 2
    /\ l4_last.askDiffs[1].limitPx \notin DOMAIN l4_raw[l4_last.coin].asks

\* the server's second sending of a diff message was handled
L4ResendStep == l4_last'.resent /\ ~l4_last.resent

\* the first message of a run was applied as a snapshot
L4FirstSnapshotStep == l4_msgs = 0 /\ l4_msgs' = 1 /\ l4_last'.applied = "snapshot"

\* diff messages with entries for one side only
L4OneSidedData ==
    [bids : {<<>>}, asks : {<<>>}, bidDiffs : SeqUpTo(L4Diffs, MaxL4Twice), askDiffs : {<<>>}]
    \cup
    [bids : {<<>>}, asks : {<<>>}, bidDiffs : {<<>>}, askDiffs : SeqUpTo(L4Diffs, MaxL4Twice)]

\* C21: a diff message handled twice in a row leaves the per-price order
\* lists, raw and published, as its first handling left them; and on every
\* book a snapshot installs, every diff message of up to MaxL4Twice entries
\* gives the same lists applied twice as applied once.
C21_DiffTwiceSameLists ==
    [][/\ L4ResendStep =>
            /\ l4_raw'[l4_last.coin] = l4_raw[l4_last.coin]
            /\ l4_books'[l4_last.coin].bids = l4_books[l4_last.coin].bids
            /\ l4_books'[l4_last.coin].asks = l4_books[l4_last.coin].asks
       /\ L4FirstSnapshotStep =>
            \A data \in L4OneSidedData :
                LET once == ApplyDiff(l4_raw'[l4_last'.coin], data)
                IN  ApplyDiff(once, data) = once
    ]_vars

\* a message that replaced one bid standing beside another and removed an
\* ask was handled a second time
C21_Witness ==
    /\ l4_last.resent
    /\ l4_last.applied = "diff"
    /\ Len(l4_last.bidDiffs) = 1 /\ Len(l4_last.askDiffs) = 1
    /\ l4_last.bidDiffs[1].sz # 0
    /\ l4_last.askDiffs[1].sz = 0
    /\ Len(l4_raw[l4_last.coin].bids[l4_last.bidDiffs[1].limitPx]) = 2
    /\ DOMAIN l4_raw[l4_last.coin].asks # {}

\* a message for a coin was handled
L4HandledStep == l4_last' # l4_last /\ l4_last'.coin # ""

\* the orders of one side of a snapshot payload at one price, in payload order
L4PayloadAt(raws, px, side) ==
    LET mine == SelectSeq(raws, LAMBDA r : r.limitPx = px)
    IN  [i \in DOMAIN mine |->
            [oid |-> mine[i].oid, user |-> mine[i].user, price |-> px,
             size |-> mine[i].sz, side |-> side]]

\* the orders of one side of a book at one price
L4ListAt(side_book, px) == IF px \in DOMAIN side_book THEN side_book[px] ELSE <<>>

\* C22: the first message for a coin on a connection is applied as a
\* snapshot, after which the coin's book, raw and published, holds the
\* payload's orders and nothing else; every later message for the coin on
\* that connection is applied as a diff. So a diff is never applied to a book
\* left by an earlier connection.
C22_SnapshotFirstOnEveryConnection ==
    [][L4HandledStep =>
         LET coin == l4_last'.coin
         IN  IF coin \notin l4_served
             THEN /\ l4_last'.applied = "snapshot"
                  /\ \A px \in Prices :
                       /\ L4ListAt(l4_raw'[coin].bids, px) = L4PayloadAt(l4_last'.bids, px, "B")
                       /\ L4ListAt(l4_raw'[coin].asks, px) = L4PayloadAt(l4_last'.asks, px, "A")
                       /\ L4ListAt(l4_books'[coin].bids, px) = L4PayloadAt(l4_last'.bids, px, "B")
                       /\ L4ListAt(l4_books'[coin].asks, px) = L4PayloadAt(l4_last'.asks, px, "A")
             ELSE l4_last'.applied = "diff"
    ]_vars

\* after a reconnect a snapshot with no bids replaced a book that was there
C22_Witness ==
    /\ l4_last.applied = "snapshot"
    /\ l4_last.had
    /\ l4_last.time = MaxL4Messages
    /\ l4_last.bids = <<>>
    /\ l4_last.asks # <<>>
    /\ DOMAIN l4_raw[l4_last.coin].bids = {}

\* C23: no price of a published L4 snapshot, nor of the raw book behind it,
\* maps to an empty list of orders; a side's best price is its highest bid
\* (lowest ask) price holding an order, and is undefined exactly when the
\* side holds no order.
C23_NoEmptyPriceLevel ==
    \A coin \in DOMAIN l4_books :
        LET snapshot == l4_books[coin]
        IN  /\ \A px \in DOMAIN snapshot.bids : snapshot.bids[px] # <<>>
            /\ \A px \in DOMAIN snapshot.asks : snapshot.asks[px] # <<>>
            /\ \A px \in DOMAIN l4_raw[coin].bids : l4_raw[coin].bids[px] # <<>>
            /\ \A px \in DOMAIN l4_raw[coin].asks : l4_raw[coin].asks[px] # <<>>
            /\ L4BestBid(snapshot) = NoPrice <=> DOMAIN l4_raw[coin].bids = {}
            /\ L4BestAsk(snapshot) = NoPrice <=> DOMAIN l4_raw[coin].asks = {}
            /\ L4BestBid(snapshot) # NoPrice =>
                 /\ snapshot.bids[L4BestBid(snapshot)] # <<>>
                 /\ \A px \in DOMAIN snapshot.bids : px <= L4BestBid(snapshot)
            /\ L4BestAsk(snapshot) # NoPrice =>
                 /\ snapshot.asks[L4BestAsk(snapshot)] # <<>>
                 /\ \A px \in DOMAIN snapshot.asks : px >= L4BestAsk(snapshot)

\* a diff removed the only bid of a book that keeps an ask
C23_Witness ==
    /\ l4_last.applied = "diff"
    /\ ~l4_last.resent
    /\ <<"B", 1>> \in l4_last.hit
    /\ l4_last.bidDiffs[1].sz = 0
    /\ DOMAIN l4_books[l4_last.coin].bids = {}
    /\ L4BestBid(l4_books[l4_last.coin]) = NoPrice
    /\ L4BestAsk(l4_books[l4_last.coin]) # NoPrice

\* place_bulk(coin, ...) returns, and the call before it was cancel_all(coin):
\* the two calls of _execute_decision for a decision with cancel_all_first
\* and a non-empty desired list
DecisionDoneStep ==
    /\ pc # "idle" /\ pc' = "idle"
    /\ cur.op = "place_bulk"
    /\ last.op = "cancel_all" /\ last.coin = cur.coin /\ ~last.raised

\* C26: when the engine has executed a decision with cancel_all_first and a
\* non-empty desired list, every tracked order of the decision's coin that is
\* not terminal is one the decision's place_bulk created.
\* Stated as the claim has it; the code breaks it.
C26_OnlyDecisionOrdersOpen ==
    [][DecisionDoneStep =>
         \A c \in DOMAIN orders' :
             (orders'[c].coin = cur.coin /\ ~IsTerminal(orders'[c]))
                 => c \in Range(cur.cloids)]_vars

\* subscribe(coin) has been called and has returned
Subscribed(coin) ==
    \E i \in 1..Len(SubCoins) : SubCoins[i] = coin /\ l4_caller.i > i

\* C24: every subscription requested through subscribe is eventually sent to
\* the server, whatever the interleaving of subscribe with _on_open.
\* Stated as the claim has it; the code breaks it.
C24_SubscriptionEventuallySent ==
    \A coin \in Coins : Subscribed(coin) ~> (coin \in l4_sent)

\* strategy.on_tick gave None for the coin at e_i and the engine went on
OnTickNoneStep == e_pc = "coin" /\ e_i' = e_i + 1 /\ e_decision' = NoDecision

TickRaisesStep == e_raised' # e_raised

\* C27: an exception raised inside a tick is caught by the loop: the raising
\* step lands in the loop's own code after _tick() with the running flag
\* untouched and no shutdown begun, the loop test that follows starts the next
\* tick while the flag is set, and shutdown after such a tick is begun only
\* with the flag clear.
C27_TickErrorCaught ==
    /\ [][TickRaisesStep =>
            e_pc' = "elapsed" /\ e_running' = e_running /\ e_shut' = <<>>]_vars
    /\ [][(e_raised = e_ticks /\ e_pc = "loop" /\ e_running /\ e_pc' # e_pc)
            => e_pc' = "check"]_vars
    /\ []((e_raised = e_ticks /\ e_pc \notin {"check", "coin", "cancel", "place", "cleanup",
                                    "elapsed", "wait", "loop"}) => ~e_running)

\* a tick has begun after a tick that raised
C27_Witness ==
    /\ e_raised = 1
    /\ e_ticks = 2
    /\ e_pc = "check"
    /\ e_running

\* C28: between two consecutive ticks the loop waits until the rest of the
\* tick interval has elapsed: a tick begins no sooner than the interval after
\* the tick before it began.
\* Stated as the claim has it; the code breaks it.
C28_WaitsRestOfInterval ==
    [][(e_pc = "loop" /\ e_pc' = "check" /\ e_ticks >= 1)
          => e_clock >= e_tick_start + Interval]_vars

\* C29: shutdown runs on_stop, cancel_all for every configured symbol, the L4
\* stop, the recorder close and the venue close, in that order, whatever
\* sub-step fails: when shutdown is over every sub-step has run.
\* Stated as the claim has it; the code breaks it.
C29_ShutdownRunsEverySubStep ==
    e_pc \in {"exited", "failed"} => e_shut = ShutdownSteps

\* thread t is where no mutex may be held: inside a backend call, a REST
\* fetch or a strategy callback for the order manager's mutex
LockOutsideOm(t) == lk_thr[t].backend \/ lk_thr[t].rest_fetch \/ lk_thr[t].strategy

\* C30: the thread that holds the order manager's mutex is not inside an
\* execution-backend call, a venue REST fetch or a strategy callback, and the
\* thread that holds the paper backend's mutex is not inside a REST fetch or a
\* strategy callback.
C30_NoLockAcrossCalls ==
    \A t \in LockThreads :
        /\ lk_om = t => ~LockOutsideOm(t)
        /\ lk_paper = t => (~lk_thr[t].rest_fetch /\ ~lk_thr[t].strategy)

\* the tick thread is in the REST fetch of a paper Ioc placement, after its
\* insert under the order manager's mutex, and holds neither mutex
C30_Witness ==
    /\ lk_thr["engine"].backend /\ lk_thr["engine"].rest_fetch
    /\ lk_thr["engine"].prog[1] = "acq_om"
    /\ lk_om # "engine" /\ lk_paper # "engine"
    /\ lk_om = "ws"

\* client ids the updates of the message at the head of the socket can reach
\* through the reverse map
ReachedByUpdates ==
    {oid_to_cloid[u.oid] : u \in {v \in Range(Head(ws).list) : v.oid \in DOMAIN oid_to_cloid}}

\* C33: a fill or an order update whose venue id is not in the reverse map is
\* dropped: the fill changes no tracked order, an orderUpdates message changes
\* only the orders its known venue ids point to, and neither changes the
\* tracking map's keys, the reverse map or the client-id counter.
C33_UnknownVenueIdDropped ==
    [][/\ (FillStep /\ Head(ws).oid \notin DOMAIN oid_to_cloid) => orders' = orders
       /\ UpdateStep =>
            /\ DOMAIN orders' = DOMAIN orders
            /\ \A c \in (DOMAIN orders) \ ReachedByUpdates : orders'[c] = orders[c]
       /\ (FillStep \/ UpdateStep) =>
            /\ DOMAIN orders' = DOMAIN orders
            /\ oid_to_cloid' = oid_to_cloid
            /\ cloid_counter' = cloid_counter]_vars

\* the venue accepted an order of the call in progress, everything it reported
\* about it has been handled before the response was applied, and the order is
\* as it was inserted
C33_Witness ==
    \E o \in DOMAIN venue :
        /\ pc = "place_resp"
        /\ venue[o].cloid \in Range(cur.cloids)
        /\ venue[o].cloid \in DOMAIN orders
        /\ o \notin DOMAIN oid_to_cloid
        /\ ws = <<>>
        /\ orders[venue[o].cloid] = NewOrder(venue[o].coin, venue[o].size,
                                              orders[venue[o].cloid].updated_at_ms)

\* C35: whenever a tracked order's status is Filled, its filled_size equals
\* its size.
\* Stated as the claim has it; the code breaks it.
C35_FilledMeansWholeSize ==
    \A c \in DOMAIN orders :
        orders[c].status = "filled" => orders[c].filled_size = orders[c].size

\* C36: when place_order or place_bulk returns, none of the returned orders is
\* still Pending, also when the backend's statuses list is empty or shorter
\* than the request list.
\* Stated as the claim has it; the code breaks it.
C36_NoneLeftPending ==
    [][PlaceReturnStep =>
         \A c \in Range(cur.cloids) \cap DOMAIN orders' : orders'[c].status # "pending"]_vars

\* C37: the reverse map and the tracking map agree: every venue id in the
\* reverse map points to a tracked client id whose order has that venue id, and
\* every tracked order with a venue id has its reverse-map entry.
C37_MapsAgree ==
    /\ \A o \in DOMAIN oid_to_cloid :
          /\ oid_to_cloid[o] \in DOMAIN orders
          /\ orders[oid_to_cloid[o]].oid = o
    /\ \A c \in DOMAIN orders :
          orders[c].oid # NoOid =>
              /\ orders[c].oid \in DOMAIN oid_to_cloid
              /\ oid_to_cloid[orders[c].oid] = c

\* cleanup_terminal has removed an order the venue filled, and the order's
\* venue id is gone from the reverse map with it
C37_Witness ==
    /\ last.op = "cleanup_terminal"
    /\ \E o \in DOMAIN venue :
          /\ venue[o].state = "filled"
          /\ venue[o].cloid \notin DOMAIN orders
          /\ o \notin DOMAIN oid_to_cloid
    /\ \E c \in DOMAIN orders : orders[c].oid # NoOid

\* the paper-mode check of one tick, with its calls of on_fill, is over
PaperCheckStep == e_pc = "check" /\ e_pc' # "check"

\* C32: after the paper-mode check of a tick no order that the paper backend
\* has filled and removed from its open map is left non-terminal in the order
\* manager: every tracked order with a venue id that is not terminal still
\* rests in the backend's open map.
C32_EveryPaperFillDelivered ==
    [][PaperCheckStep =>
         \A c \in DOMAIN orders' :
             (orders'[c].oid # NoOid /\ ~IsTerminal(orders'[c]))
                 => orders'[c].oid \in DOMAIN paper'.open_orders]_vars

\* C34: what a fill does to the position of its symbol. With no position a
\* new one is made with signed size +sz (buy) or -sz (sell) and the fill price
\* as entry price. With a position and a non-zero resulting size: a fill in
\* the position's direction adds to the size and makes the entry price the
\* size-weighted average of the old entry price and the fill price; a fill
\* against it changes the signed size and leaves the entry price as it was.
C34_PositionUpdateRules ==
    [][OneFillStep =>
         LET f == paper'.fills[Len(paper'.fills)]
             signed == IF f.side = "B" THEN f.sz ELSE -f.sz
         IN IF f.coin \notin DOMAIN paper.positions
            THEN /\ f.coin \in DOMAIN paper'.positions
                 /\ paper'.positions[f.coin].szi = signed
                 /\ paper'.positions[f.coin].entryPx = Whole(f.px)
            ELSE LET old == paper.positions[f.coin]
                 IN (old.szi + signed # 0) =>
                      /\ f.coin \in DOMAIN paper'.positions
                      /\ paper'.positions[f.coin].szi = old.szi + signed
                      /\ IF (old.szi > 0) = (signed > 0)
                         THEN FracMul(paper'.positions[f.coin].entryPx,
                                      Whole(Abs(old.szi) + f.sz))
                              = FracAdd(FracMul(old.entryPx, Whole(Abs(old.szi))),
                                        Whole(f.px * f.sz))
                         ELSE paper'.positions[f.coin].entryPx = old.entryPx]_vars

\* a position built by two buys at different prices, so that its entry price
\* is an average between them, has then been reduced by a sell
C34_Witness ==
    /\ Len(paper.fills) >= 3
    /\ LET f == paper.fills[Len(paper.fills)]
       IN /\ f.side = "A"
          /\ f.coin \in DOMAIN paper.positions
          /\ paper.positions[f.coin].szi > 0
          /\ paper.positions[f.coin].entryPx.den # 1

\* the cash the fills from position i on bring in: size * price of every sell
\* less size * price of every buy
RECURSIVE NetCashFlow(_, _)
NetCashFlow(fills, i) ==
    IF i > Len(fills) THEN 0
    ELSE (IF fills[i].side = "A" THEN 1 ELSE -1) * fills[i].sz * fills[i].px
         + NetCashFlow(fills, i + 1)

\* C40: when the fills recorded since the start, at which there was no
\* position, have left no position on any symbol, the cash balance differs
\* from the starting balance by exactly the net cash flow of those fills.
C40_FlatBalanceIsNetCashFlow ==
    paper.positions = <<>> =>
        paper.balance_usd = Whole(StartingBalance + NetCashFlow(paper.fills, 1))

\* no two orders of the side's lists have the same venue order id
L4OidsDistinct(side_book) ==
    \A p \in DOMAIN side_book, q \in DOMAIN side_book :
        \A i \in DOMAIN side_book[p], j \in DOMAIN side_book[q] :
            side_book[p][i].oid = side_book[q][j].oid => (p = q /\ i = j)

\* C38: a diff message applied to a book whose sides each hold every venue
\* order id at most once leaves a book whose sides each hold every venue order
\* id at most once, so that from a snapshot with distinct ids no sequence of
\* diffs leaves an order resting at two prices of a side.
C38_OidOncePerSide ==
    [][\A coin \in L4Coins :
          (/\ L4DiffStep
           /\ l4_last'.coin = coin
           /\ L4OidsDistinct(l4_raw[coin].bids)
           /\ L4OidsDistinct(l4_raw[coin].asks))
          => /\ L4OidsDistinct(l4_raw'[coin].bids)
             /\ L4OidsDistinct(l4_raw'[coin].asks)]_vars

\* an l4Book message with a symbol was handled
L4NotifyStep == l4_msgs' = l4_msgs + 1 /\ l4_last'.coin # ""

\* the payload of the message handled last
L4PayloadOf(m) ==
    [bids |-> m.bids, asks |-> m.asks, bidDiffs |-> m.bidDiffs, askDiffs |-> m.askDiffs]

\* C31: when an l4Book message with a symbol is handled, every callback
\* registered for the symbol is called, in order, with the message's raw
\* payload and while the book is still as it was before the message, whether
\* or not an earlier callback raised; and the message is applied to the book
\* whether or not a callback raised.
C31_CallbacksBeforeBook ==
    [][L4NotifyStep =>
         LET coin == l4_last'.coin
         IN /\ Len(l4_notified') = Len(l4_callbacks[coin])
            /\ \A i \in DOMAIN l4_notified' :
                  /\ l4_notified'[i].cb = l4_callbacks[coin][i]
                  /\ l4_notified'[i].data = L4PayloadOf(l4_last')
                  /\ l4_notified'[i].book = RawBookOf(l4_raw, coin)
            /\ l4_last'.applied \in {"snapshot", "diff"}
            /\ coin \in DOMAIN l4_books'
            /\ l4_books'[coin].timestamp_ms = l4_last'.time]_vars

\* a diff message was handled with two callbacks registered: the first
\* raised, the second was called all the same, and the diff was applied
C31_Witness ==
    /\ l4_last.applied = "diff"
    /\ Len(l4_notified) = 2
    /\ l4_notified[1].raised
    /\ ~l4_notified[2].raised
    /\ l4_last.bidDiffs # <<>>
    /\ l4_notified[2].book.bids # l4_raw[l4_last.coin].bids

\* C39: a symbol subscribed on a connection that has dropped is subscribed
\* again on the connection that follows: from a state with the socket closed
\* and the symbol subscribed on it, a state is reached with a socket open and
\* the symbol subscribed on it.
\* Stated as the claim has it; the code breaks it.
C39_ResubscribedAfterReconnect ==
    \A coin \in Coins :
        (l4_link = "closed" /\ coin \in l4_live) ~> (l4_link = "open" /\ coin \in l4_live)

====
